---- MODULE Spec2Model ----
(***************************************************************************)
(* Model of packages/store/src/index.ts: the Cell returned by create() and *)
(* the Projection returned by project().                                   *)
(*                                                                         *)
(* JavaScript runs the library synchronously on one thread, so the only    *)
(* interleaving is reentrancy: a listener that is being notified may       *)
(* itself subscribe, unsubscribe or apply.  The model keeps the call       *)
(* stack explicitly: a "pass" frame is one running                         *)
(* localListeners.forEach(...) loop, a "run" frame is the body of a        *)
(* listener that has been invoked and has not returned yet, a "papply"     *)
(* frame is a running applyProjection and a "ppass" frame the forEach of   *)
(* the projection that follows it.  User code                              *)
(* (the top level, or the body of a running listener) may call the public  *)
(* operations in any order; the bounds below cap how many calls are made.  *)
(***************************************************************************)
EXTENDS Integers, Sequences, FiniteSets, TLC

(* ------------------------------ bounds -------------------------------- *)
MaxHandles == 3      \* subscription-preparer invocations on cells
MaxPasses == 2       \* nesting depth of apply preparers (passes on the stack)
MaxPHandles == 2     \* subscription-preparer invocations on the projection
MaxWrites == 2       \* source applies one applyProjection call makes
MaxNested == 1       \* applies on the projection that listeners make during
                     \* one top-level call
MaxSourceListeners == 1  \* listeners subscribed directly on the sources of
                         \* a projection

Fns == {"f", "g"}    \* the listener functions user code owns
Vals == {0, 1}       \* the states a cell takes
Reducers == {[op |-> "inc", v |-> 0], [op |-> "const", v |-> 0]}
Cells == {1, 2}      \* the cells; the projection is built on all of them

VARIABLES
    state,       \* state[c]: `state` of cell c
    listeners,   \* listeners[c]: the `listeners` array of cell c
    handles,     \* one record per invocation of a cell subscription preparer:
                 \* the closure of the returned unsubscribe (cell, listener,
                 \* removed) and, as history, whether a listener invoked it
    stack        \* call stack of pass / run frames, top is the last element.
                 \* A run frame holds the function that runs, the argument
                 \* it was called with and, as history, the relay it was
                 \* invoked through (via, 0 if none).
                 \* A pass frame holds the locals of the apply preparer
                 \* (localListeners, the forEach index i) and, as history,
                 \* what was registered when it started (live, nh) and what
                 \* it has invoked so far (done, nested)

VARIABLES
    isUpdating,  \* `isUpdating` of the projection
    pListeners,  \* the `listeners` array of the projection
    pHandles,    \* one record per invocation of a projection subscription
                 \* preparer: the closure of the returned unsubscribe
                 \* (listener, unsubscribes) and, as history, whether it
                 \* was called
    call         \* history of the last top-level call on the projection or
                 \* on one of its sources: what was registered when it
                 \* started (for a projection apply: when the latest
                 \* projection pass started), the projection listeners
                 \* invoked since and the number of applies on the
                 \* projection that listeners made meanwhile

cellVars == <<state, listeners, handles>>
projVars == <<isUpdating, pListeners, pHandles, call>>
vars == <<state, listeners, handles, stack, isUpdating, pListeners, pHandles, call>>

(* ------------------------------ helpers ------------------------------- *)

\* reducer(state) for the reducers user code passes to apply
Reduce(r, s) ==
    IF r.op = "inc" THEN (IF s + 1 \in Vals THEN s + 1 ELSE 0) ELSE r.v

\* a listener value stored in a cell's array: a user function
FnL(f) == [k |-> "fn", f |-> f, h |-> 0]

\* a listener value stored in a source's array: the relay closure that the
\* activation h of a projection subscription registered on that source
RelayL(h) == [k |-> "relay", f |-> "", h |-> h]

\* Array.prototype.indexOf: first index holding a value equal to x, 0 if none
\* (JavaScript's -1)
IndexOf(arr, x) ==
    IF \E i \in 1..Len(arr) : arr[i] = x
    THEN CHOOSE i \in 1..Len(arr) : arr[i] = x /\ \A j \in 1..(i - 1) : arr[j] # x
    ELSE 0

\* Array.prototype.splice(index, 1) with a 1-based index
Splice(arr, i) == SubSeq(arr, 1, i - 1) \o SubSeq(arr, i + 1, Len(arr))

Top == stack[Len(stack)]
Pop(stk) == SubSeq(stk, 1, Len(stk) - 1)

\* user code is in control: at top level or inside the body of a listener
UserCode == IF stack = <<>> THEN TRUE ELSE Top.kind = "run"

\* number of notification passes on the stack
Depth == Cardinality({k \in 1..Len(stack) : stack[k].kind = "pass"})

\* history: the pass whose listener is running has started a nested apply
NoteNested(stk) ==
    IF Len(stk) < 2 \/ stk[Len(stk)].kind # "run" THEN stk
    ELSE [stk EXCEPT ![Len(stk) - 1].nested = TRUE]

\* history: how many listeners the calling pass had invoked when user code
\* called apply (0 at top level)
CallerDone ==
    IF Len(stack) < 2 \/ Top.kind # "run" THEN 0
    ELSE Len(stack[Len(stack) - 1].done)

\* the handles of cell c whose unsubscribe has not been called, in the order
\* their preparers were invoked
LiveHandles(c) ==
    SelectSeq([h \in 1..Len(handles) |-> h],
              LAMBDA h : handles[h].cell = c /\ ~handles[h].removed)

(* ------------------------------ the Cell ------------------------------ *)

NoCall == [kind |-> "none"]

\* every cell is an instance of one factory create(setupInitialState), so
\* all start from the state that setupInitialState produces
Init ==
    /\ state \in {[c \in Cells |-> v] : v \in Vals}
    /\ listeners = [c \in Cells |-> <<>>]
    /\ handles = <<>>
    /\ stack = <<>>
    /\ isUpdating = FALSE
    /\ pListeners = <<>>
    /\ pHandles = <<>>
    /\ call = NoCall

\* the closure the preparer of cell c returns for listener l
NewHandle(c, l) ==
    [cell |-> c, l |-> l, removed |-> FALSE, byListener |-> stack # <<>>]

\* store.subscribe(listener)(): the preparer pushes the listener and returns
\* an unsubscribe closure with removed = false
Subscribe(c, f) ==
    /\ UserCode
    /\ Cardinality({h \in 1..Len(handles) : handles[h].l.k = "fn"}) < MaxHandles
    /\ listeners' = [listeners EXCEPT ![c] = Append(@, FnL(f))]
    /\ handles' = Append(handles, NewHandle(c, FnL(f)))
    /\ UNCHANGED <<state, stack, projVars>>

\* variant: unsubscribe that forgets the splice
RemovedNothing(arr, l) == arr

\* the listeners array after the body of unsubscribe ran for listener l
Removed(arr, l) ==
    IF IndexOf(arr, l) > 0 THEN Splice(arr, IndexOf(arr, l)) ELSE arr

\* variant: unsubscribe without the removed flag
NeverRemoved(hs, h) == FALSE

\* the test `if (removed)` of the unsubscribe closure of handle h
AlreadyRemoved(hs, h) == hs[h].removed

\* the listeners arrays and the handles after one call of the unsubscribe
\* closure of handle h
AfterUnsubscribe(ls, hs, h) ==
    IF AlreadyRemoved(hs, h)
    THEN [ls |-> ls, hs |-> hs]
    ELSE [ls |-> [ls EXCEPT ![hs[h].cell] = Removed(@, hs[h].l)],
          hs |-> [hs EXCEPT ![h].removed = TRUE]]

\* the unsubscribe closure of handle h, called by user code
Unsubscribe(h) ==
    /\ UserCode
    /\ h \in 1..Len(handles)
    /\ handles[h].l.k = "fn"
    /\ listeners' = AfterUnsubscribe(listeners, handles, h).ls
    /\ handles' = AfterUnsubscribe(listeners, handles, h).hs
    /\ UNCHANGED <<state, stack, projVars>>

\* the frame of a notification pass that starts now on cell c
PassFrame(c) ==
    [kind |-> "pass", cell |-> c, localListeners |-> listeners[c], i |-> 1,
     live |-> LiveHandles(c), nh |-> Len(handles),
     by |-> CallerDone, done |-> <<>>, nested |-> FALSE,
     newState |-> state'[c]]

\* variant: a nested apply is queued behind the running pass instead of
\* running at once
CallDeferred(stk, frame) ==
    IF frame.kind = "pass" /\ stk # <<>> THEN <<frame>> \o stk
    ELSE Append(stk, frame)

\* the stack once a callee's frame is entered
Call(stk, frame) == Append(stk, frame)

\* variant: the preparer notifies without assigning the state
NotifyOnly(c, r) ==
    /\ state' = state
    /\ stack' = Append(stack, [PassFrame(c) EXCEPT
                                  !.newState = Reduce(r, state[c])])
    /\ UNCHANGED <<listeners, handles>>

\* the body of the preparer store.apply(reducer): assign the state, copy
\* the listeners, start forEach
ApplyCell(c, r) ==
    /\ state' = [state EXCEPT ![c] = Reduce(r, @)]
    /\ stack' = Call(NoteNested(stack), PassFrame(c))
    /\ UNCHANGED <<listeners, handles>>

\* store.apply(reducer)() called by user code
Apply(c, r) ==
    /\ UserCode
    /\ Depth < MaxPasses
    /\ ApplyCell(c, r)
    /\ UNCHANGED projVars

\* variant: no copy, the loop walks the live listeners array
IteratedLive(F) == listeners[F.cell]

\* the array the forEach of pass frame F walks: the copy made by slice()
Iterated(F) == F.localListeners

\* variant: while isUpdating is set the forEach of a source skips the user
\* functions as the relays do
NotifyGuarded ==
    /\ stack # <<>>
    /\ Top.kind = "pass"
    /\ Top.i <= Len(Iterated(Top))
    /\ LET l == Iterated(Top)[Top.i]
           moved == [stack EXCEPT ![Len(stack)].i = @ + 1,
                                  ![Len(stack)].done = Append(@, l.f)]
       IN /\ l.k = "fn"
          /\ stack' = IF isUpdating THEN moved
                      ELSE Call(moved, [kind |-> "run", f |-> l.f, via |-> 0,
                                        arg |-> state[Top.cell]])
    /\ UNCHANGED <<cellVars, projVars>>

\* one iteration of localListeners.forEach: listener(state), for a listener
\* that is a user function
Notify ==
    /\ stack # <<>>
    /\ Top.kind = "pass"
    /\ Top.i <= Len(Iterated(Top))
    /\ LET l == Iterated(Top)[Top.i]
       IN /\ l.k = "fn"
          /\ stack' = Call([stack EXCEPT ![Len(stack)].i = @ + 1,
                                         ![Len(stack)].done = Append(@, l.f)],
                           [kind |-> "run", f |-> l.f, via |-> 0,
                            arg |-> state[Top.cell]])
    /\ UNCHANGED <<cellVars, projVars>>

\* the body of the running listener returns
Return ==
    /\ stack # <<>>
    /\ Top.kind = "run"
    /\ stack' = Pop(stack)
    /\ UNCHANGED <<cellVars, projVars>>

\* forEach is over: the apply preparer returns to its caller
EndPass ==
    /\ stack # <<>>
    /\ Top.kind = "pass"
    /\ Top.i > Len(Iterated(Top))
    /\ stack' = Pop(stack)
    /\ UNCHANGED <<cellVars, projVars>>

(* --------------------------- the Projection --------------------------- *)

\* the `stores` array given to project(): every cell, in order
Sources == [k \in 1..Cardinality(Cells) |-> k]

\* readProjection of the projection under test: (a, b) => ({ a, b })
ReadProjection(st) == [a |-> st[1], b |-> st[2]]

\* variant: read() answers from the states seen when the last call started
ReadStale ==
    IF call.kind \in {"papply", "direct"}
    THEN ReadProjection([k \in 1..Len(Sources) |-> call.pre[Sources[k]]])
    ELSE ReadProjection([k \in 1..Len(Sources) |-> state[Sources[k]]])

\* read(): stores.map((store) => store.read()), then readProjection
Read == ReadProjection([k \in 1..Len(Sources) |-> state[Sources[k]]])

\* variant: applyProjection writes each component into the other source
ComponentSwapped(p, c) == IF c = 1 THEN p.b ELSE p.a

\* what applyProjection writes into source c for a projected state p:
\* ({ a, b }) => { storeA.apply(() => a)(); storeB.apply(() => b)(); }
Component(p, c) == IF c = 1 THEN p.a ELSE p.b

\* reducer(read()) for the reducers user code passes to the projection's apply
PReduce(r, p) == [a |-> Reduce(r, p.a), b |-> Reduce(r, p.b)]

\* the activations of the projection's preparers whose unsubscribe has not
\* been called, in activation order
LivePHandles ==
    SelectSeq([h \in 1..Len(pHandles) |-> h], LAMBDA h : ~pHandles[h].called)

\* history kept from the start of a top-level call
StartCall(kind, c, r) ==
    [kind |-> kind, c |-> c, r |-> r, pre |-> state, reg |-> pListeners,
     live |-> LivePHandles, written |-> <<>>, invoked |-> <<>>,
     nested |-> 0]

\* projection.subscribe(listener)(): push the listener, subscribe one relay
\* on every source and activate it at once
PSubscribe(f) ==
    /\ UserCode
    /\ Len(pHandles) < MaxPHandles
    /\ LET h == Len(pHandles) + 1
           n == Len(Sources)
       IN /\ pListeners' = Append(pListeners, FnL(f))
          /\ listeners' = [c \in Cells |-> Append(listeners[c], RelayL(h))]
          /\ handles' = handles \o
                 [k \in 1..n |-> NewHandle(Sources[k], RelayL(h))]
          /\ pHandles' = Append(pHandles,
                 [l |-> FnL(f),
                  unsubscribes |-> [k \in 1..n |-> Len(handles) + k],
                  called |-> FALSE])
    /\ UNCHANGED <<state, stack, isUpdating, call>>

\* variant: the unsubscribe of the projection leaves its relays subscribed
KeepRelays(ls, hs, us) == [ls |-> ls, hs |-> hs]

\* unsubscribes.forEach((unsubscribe) => unsubscribe())
RECURSIVE UnsubscribeAll(_, _, _)
UnsubscribeAll(ls, hs, us) ==
    IF us = <<>> THEN [ls |-> ls, hs |-> hs]
    ELSE LET r == AfterUnsubscribe(ls, hs, Head(us))
         IN UnsubscribeAll(r.ls, r.hs, Tail(us))

\* the test `if (removed)` of the projection's unsubscribe: removed is a
\* const initialised to false and never assigned
PAlreadyRemoved(h) == FALSE

\* the unsubscribe closure of activation h of the projection
PUnsubscribe(h) ==
    /\ UserCode
    /\ h \in 1..Len(pHandles)
    /\ IF PAlreadyRemoved(h)
       THEN UNCHANGED <<pListeners, listeners, handles>>
       ELSE LET r == UnsubscribeAll(listeners, handles, pHandles[h].unsubscribes)
            IN /\ pListeners' = Removed(pListeners, pHandles[h].l)
               /\ listeners' = r.ls
               /\ handles' = r.hs
    /\ pHandles' = [pHandles EXCEPT ![h].called = TRUE]
    /\ UNCHANGED <<state, stack, isUpdating, call>>

\* projection.apply(reducer)() up to the call of applyProjection
PApply(r) ==
    /\ UserCode
    /\ isUpdating' = TRUE
    /\ stack' = Call(stack, [kind |-> "papply", newState |-> PReduce(r, Read),
                             w |-> 0])
    /\ call' = IF stack = <<>> THEN StartCall("papply", 0, r)
               ELSE [call EXCEPT !.nested = @ + 1]
    /\ UNCHANGED <<cellVars, pListeners, pHandles>>

\* variant: applyProjection assigns the state of the source itself, without
\* the source's apply
PWriteDirect(c) ==
    /\ stack # <<>>
    /\ Top.kind = "papply"
    /\ Top.w < MaxWrites
    /\ state' = [state EXCEPT ![c] = Component(Top.newState, c)]
    /\ stack' = [stack EXCEPT ![Len(stack)].w = @ + 1]
    /\ call' = [call EXCEPT !.written = Append(@, c)]
    /\ UNCHANGED <<listeners, handles, isUpdating, pListeners, pHandles>>

\* applyProjection(newState) writes into source c: the preparer
\* store.apply(() => component)() runs
PWrite(c) ==
    /\ stack # <<>>
    /\ Top.kind = "papply"
    /\ Top.w < MaxWrites
    /\ state' = [state EXCEPT ![c] = Component(Top.newState, c)]
    /\ stack' = Call([stack EXCEPT ![Len(stack)].w = @ + 1], PassFrame(c))
    /\ call' = [call EXCEPT !.written = Append(@, c)]
    /\ UNCHANGED <<listeners, handles, isUpdating, pListeners, pHandles>>

\* variant: applyProjection returns and isUpdating is left as it is
PReturnKeepsGuard ==
    /\ stack # <<>>
    /\ Top.kind = "papply"
    /\ stack' = [stack EXCEPT ![Len(stack)] =
                    [kind |-> "ppass", newState |-> Top.newState,
                     localListeners |-> pListeners, i |-> 1, done |-> <<>>]]
    /\ call' = [call EXCEPT !.reg = pListeners, !.live = LivePHandles]
    /\ UNCHANGED <<cellVars, isUpdating, pListeners, pHandles>>

\* applyProjection returns: isUpdating = false, copy the projection's
\* listeners, start forEach
PReturn ==
    /\ stack # <<>>
    /\ Top.kind = "papply"
    /\ isUpdating' = FALSE
    /\ stack' = [stack EXCEPT ![Len(stack)] =
                    [kind |-> "ppass", newState |-> Top.newState,
                     localListeners |-> pListeners, i |-> 1, done |-> <<>>]]
    /\ call' = [call EXCEPT !.reg = pListeners, !.live = LivePHandles]
    /\ UNCHANGED <<cellVars, pListeners, pHandles>>

\* variant: the projection's forEach hands over what read() returns now
NotifiedLive(F) == Read

\* what the forEach of the projection's pass F hands to a listener: the
\* constant newState of the call
Notified(F) == F.newState

\* one iteration of the projection's localListeners.forEach:
\* listener(newState)
PNotify ==
    /\ stack # <<>>
    /\ Top.kind = "ppass"
    /\ Top.i <= Len(Top.localListeners)
    /\ LET l == Top.localListeners[Top.i]
       IN /\ stack' = Call([stack EXCEPT ![Len(stack)].i = @ + 1,
                                         ![Len(stack)].done = Append(@, l.f)],
                           [kind |-> "run", f |-> l.f, via |-> 0,
                            arg |-> Notified(Top)])
          /\ call' = [call EXCEPT !.invoked =
                         Append(@, [f |-> l.f, arg |-> Notified(Top),
                                    h |-> 0])]
    /\ UNCHANGED <<cellVars, isUpdating, pListeners, pHandles>>

\* the projection's forEach is over: its apply preparer returns
PEnd ==
    /\ stack # <<>>
    /\ Top.kind = "ppass"
    /\ Top.i > Len(Top.localListeners)
    /\ stack' = Pop(stack)
    /\ UNCHANGED <<cellVars, projVars>>

\* variant: a relay without the isUpdating test
RelayNeverSuppressed == FALSE

\* the test `if (isUpdating)` of a relay
RelaySuppressed == isUpdating

\* variant: a relay that projects the state of the source that notified it
\* in the place of every source
NotifierState == ReadProjection([k \in 1..Len(Sources) |-> state[Top.cell]])

\* `const currentState = read()` of a relay
CurrentState == Read

\* one iteration of a source's localListeners.forEach for a listener that is
\* a relay of the projection: return if isUpdating, else listener(read())
RelayNotify ==
    /\ stack # <<>>
    /\ Top.kind = "pass"
    /\ Top.i <= Len(Iterated(Top))
    /\ LET l == Iterated(Top)[Top.i]
           moved == [stack EXCEPT ![Len(stack)].i = @ + 1,
                                  ![Len(stack)].done = Append(@, l.f)]
       IN /\ l.k = "relay"
          /\ IF RelaySuppressed
             THEN /\ stack' = moved
                  /\ UNCHANGED call
             ELSE /\ stack' = Call(moved, [kind |-> "run", f |-> pHandles[l.h].l.f,
                                           via |-> l.h, arg |-> CurrentState])
                  /\ call' = [call EXCEPT !.invoked =
                                 Append(@, [f |-> pHandles[l.h].l.f,
                                            arg |-> CurrentState, h |-> l.h])]
    /\ UNCHANGED <<cellVars, isUpdating, pListeners, pHandles>>

\* source.apply(reducer)() called by user code at top level
DirectApply(c, r) ==
    /\ stack = <<>>
    /\ ApplyCell(c, r)
    /\ call' = StartCall("direct", c, r)
    /\ UNCHANGED <<isUpdating, pListeners, pHandles>>

\* the cell the claims about a single Cell are checked on
TheCell == CHOOSE c \in Cells : \A d \in Cells : c <= d

Next ==
    \/ \E f \in Fns : Subscribe(TheCell, f)
    \/ \E h \in 1..MaxHandles : Unsubscribe(h)
    \/ \E r \in Reducers : Apply(TheCell, r)
    \/ Notify
    \/ Return
    \/ EndPass

Spec == Init /\ [][Next]_vars

\* the sources are instances of factories of their own
InitProj ==
    /\ state \in [Cells -> Vals]
    /\ listeners = [c \in Cells |-> <<>>]
    /\ handles = <<>>
    /\ stack = <<>>
    /\ isUpdating = FALSE
    /\ pListeners = <<>>
    /\ pHandles = <<>>
    /\ call = NoCall

\* a projection over the cells, which have no listeners but its relays.
\* User code applies from the top level only; the projection's listeners
\* subscribe to it and unsubscribe from it at will but do not apply;
\* applyProjection only writes into sources
NextProj ==
    \/ \E f \in Fns : PSubscribe(f)
    \/ \E h \in 1..MaxPHandles : PUnsubscribe(h)
    \/ stack = <<>> /\ \E r \in Reducers : PApply(r)
    \/ \E c \in Cells : PWrite(c)
    \/ PReturn
    \/ PNotify
    \/ PEnd
    \/ \E c \in Cells, r \in Reducers : DirectApply(c, r)
    \/ RelayNotify
    \/ Return
    \/ EndPass

SpecProj == InitProj /\ [][NextProj]_vars

\* number of listeners user code subscribed on cells directly
SourceListeners ==
    Cardinality({h \in 1..Len(handles) : handles[h].l.k = "fn"})

\* the body of a listener subscribed directly on a source is running
InSourceListener ==
    /\ Len(stack) >= 2
    /\ Top.kind = "run"
    /\ Top.via = 0
    /\ stack[Len(stack) - 1].kind = "pass"

\* a projection over the cells together with listeners subscribed on the
\* cells directly.  Subscriptions are made from the top level; then one
\* top-level call of the projection's apply preparer is followed, during
\* which a listener of a source may call the projection's apply preparer
\* itself
NextReent ==
    \/ stack = <<>> /\ call = NoCall /\ \E f \in Fns : PSubscribe(f)
    \/ /\ stack = <<>>
       /\ call = NoCall
       /\ SourceListeners < MaxSourceListeners
       /\ \E c \in Cells, f \in Fns : Subscribe(c, f)
    \/ /\ IF stack = <<>> THEN call = NoCall
          ELSE InSourceListener /\ call.nested < MaxNested
       /\ \E r \in Reducers : PApply(r)
    \/ \E c \in Cells : PWrite(c)
    \/ PReturn
    \/ PNotify
    \/ PEnd
    \/ RelayNotify
    \/ Notify
    \/ Return
    \/ EndPass

SpecReent == InitProj /\ [][NextReent]_vars

(* ------------------------ failures and preparers ---------------------- *)

\* a value that is not a function, as the string of the tests
NotAFunction == "hello"

\* the values user code passes to subscribe
Listeners == Fns \cup {NotAFunction}

\* variant: subscribe without the typeof test
AnythingCallable(x) == TRUE

\* typeof listener === 'function'
Callable(x) == x \in Fns

\* a reducer that throws
Thrower == [op |-> "throw", v |-> 0]

\* the frame of the caller's handler once a throw has reached it; as history
\* it keeps what the stores held when the failed call was made
Caught(what) ==
    [kind |-> "caught", what |-> what, pre |-> state, ls |-> listeners,
     pls |-> pListeners]

\* the preparer that subscribe returns, held by user code
Prepared(store, c, f) == [kind |-> "prepared", store |-> store, c |-> c, f |-> f]

\* cell.subscribe(x): throw if x is not a function, else return a preparer
SubscribeCall(c, x) ==
    /\ stack = <<>>
    /\ IF Callable(x)
       THEN call' = Prepared("cell", c, x) /\ UNCHANGED stack
       ELSE stack' = <<Caught("subscribe")>> /\ UNCHANGED call
    /\ UNCHANGED <<cellVars, isUpdating, pListeners, pHandles>>

\* projection.subscribe(x): throw if x is not a function, else return a
\* preparer
PSubscribeCall(x) ==
    /\ stack = <<>>
    /\ IF Callable(x)
       THEN call' = Prepared("projection", 0, x) /\ UNCHANGED stack
       ELSE stack' = <<Caught("psubscribe")>> /\ UNCHANGED call
    /\ UNCHANGED <<cellVars, isUpdating, pListeners, pHandles>>

\* user code invokes the preparer it holds
Activate ==
    /\ stack = <<>>
    /\ call.kind = "prepared"
    /\ IF call.store = "cell" THEN Subscribe(call.c, call.f)
       ELSE PSubscribe(call.f)

\* variant: the state is assigned before the reducer's throw gets out
AssignThenThrow(c, r) ==
    /\ stack = <<>>
    /\ IF r = Thrower
       THEN /\ state' = [state EXCEPT ![c] = Thrower.v]
            /\ stack' = <<Caught("reducer")>>
            /\ UNCHANGED <<listeners, handles, projVars>>
       ELSE DirectApply(c, r)

\* cell.apply(reducer)() from the top level: reducer(state) throws before
\* the assignment, or the preparer runs
CellApply(c, r) ==
    /\ stack = <<>>
    /\ IF r = Thrower
       THEN /\ stack' = <<Caught("reducer")>>
            /\ UNCHANGED <<cellVars, projVars>>
       ELSE DirectApply(c, r)

\* applyProjection throws: project.apply has no handler, the throw leaves
\* it at once and reaches the top-level caller
PThrow ==
    /\ Len(stack) = 1
    /\ Top.kind = "papply"
    /\ stack' = <<Caught("applyProjection")>>
    /\ UNCHANGED <<cellVars, projVars>>

\* the caller's handler is done
Resume ==
    /\ stack # <<>>
    /\ Top.kind = "caught"
    /\ stack' = Pop(stack)
    /\ UNCHANGED <<cellVars, projVars>>

\* cells and a projection over them: user code subscribes from the top
\* level, also with values that are not functions, invokes the preparers
\* it gets and applies on the cells; the listeners only return
NextSub ==
    \/ \E c \in Cells, x \in Listeners : SubscribeCall(c, x)
    \/ \E x \in Listeners : PSubscribeCall(x)
    \/ Activate
    \/ \E c \in Cells, r \in Reducers : DirectApply(c, r)
    \/ Notify
    \/ RelayNotify
    \/ Return
    \/ EndPass
    \/ Resume

SpecSub == InitProj /\ [][NextSub]_vars

\* cells used from the top level by user code that may pass a throwing
\* reducer; the listeners only return
NextErr ==
    \/ stack = <<>> /\ \E c \in Cells, f \in Fns : Subscribe(c, f)
    \/ stack = <<>> /\ \E h \in 1..Len(handles) : Unsubscribe(h)
    \/ \E c \in Cells, r \in Reducers \cup {Thrower} : CellApply(c, r)
    \/ Notify
    \/ Return
    \/ EndPass
    \/ Resume

SpecErr == InitProj /\ [][NextErr]_vars

\* a projection over the cells used from the top level by user code whose
\* applyProjection may throw; the listeners only return
NextThrow ==
    \/ stack = <<>> /\ \E f \in Fns : PSubscribe(f)
    \/ stack = <<>> /\ \E r \in Reducers : PApply(r)
    \/ \E c \in Cells : PWrite(c)
    \/ PThrow
    \/ PReturn
    \/ PNotify
    \/ PEnd
    \/ \E c \in Cells, r \in Reducers : DirectApply(c, r)
    \/ RelayNotify
    \/ Return
    \/ EndPass
    \/ Resume

SpecThrow == InitProj /\ [][NextThrow]_vars

\* a listener calls cell.apply(reducer)() while a call made from the top
\* level is still running
NestedApply(c, r) ==
    /\ UserCode
    /\ stack # <<>>
    /\ call.nested < MaxNested
    /\ ApplyCell(c, r)
    /\ call' = [call EXCEPT !.nested = @ + 1]
    /\ UNCHANGED <<isUpdating, pListeners, pHandles>>

\* cells with listeners of their own and a projection over them.
\* Subscriptions are made from the top level; then one top-level call of
\* an apply preparer, of a cell or of the projection, is followed, during
\* which a listener may call the apply preparer of a cell
NextRead ==
    \/ stack = <<>> /\ call = NoCall /\ \E f \in Fns : PSubscribe(f)
    \/ /\ stack = <<>>
       /\ call = NoCall
       /\ SourceListeners < MaxSourceListeners
       /\ \E c \in Cells, f \in Fns : Subscribe(c, f)
    \/ stack = <<>> /\ call = NoCall /\ \E r \in Reducers : PApply(r)
    \/ call = NoCall /\ \E c \in Cells, r \in Reducers : DirectApply(c, r)
    \/ \E c \in Cells, r \in Reducers : NestedApply(c, r)
    \/ \E c \in Cells : PWrite(c)
    \/ PReturn
    \/ PNotify
    \/ PEnd
    \/ RelayNotify
    \/ Notify
    \/ Return
    \/ EndPass

SpecRead == InitProj /\ [][NextRead]_vars

(* ---------------------- factories and preparers ---------------------- *)

MaxFactories == 2      \* calls of create
MaxPreparers == 2      \* preparers user code gets from apply
MaxRuns == 2           \* invocations of one preparer
MaxLifted == 1         \* calls of liftAndApply
MaxSubscriptions == 2  \* listeners user code subscribes

\* the value a function returns that returns nothing; also what stands in
\* `state` for a cell no factory has made yet
Undefined == -1

Values == Vals \cup {Undefined}

\* the functions given to create: () => v
Producers == {[v |-> x] : x \in Values}

\* variant: the factory leaves the state unset
ProduceNothing(p) == Undefined

\* setupInitialState()
Produce(p) == p.v

\* the reducers user code applies, one of which returns nothing
UseReducers == Reducers \cup {[op |-> "const", v |-> Undefined]}

\* the reducer factories given to liftAndApply:
\* (a) => (state) => a  and  (a) => (state) => state + 1
ReducerFactories == {"set", "step"}

\* fn(...args)
FnApply(fn, a) ==
    IF fn = "set" THEN [op |-> "const", v |-> a] ELSE [op |-> "inc", v |-> 0]

\* what user code holds: the factories create returned (with, as history,
\* how often each called its producer), the cells the factories made (with,
\* as history, the factory of each and whether everything that produced
\* its states returned a value), the functions liftAndApply returned and
\* the preparers apply returned (with the number of their invocations)
NoEnv ==
    [kind |-> "env", factories |-> <<>>, cells |-> <<>>, lifted |-> <<>>,
     preps |-> <<>>]

\* cell c has been made
Exists(c) == c <= Len(call.cells)

\* nothing is made yet
InitUse ==
    /\ state = [c \in Cells |-> Undefined]
    /\ listeners = [c \in Cells |-> <<>>]
    /\ handles = <<>>
    /\ stack = <<>>
    /\ isUpdating = FALSE
    /\ pListeners = <<>>
    /\ pHandles = <<>>
    /\ call = NoEnv

\* variant: create calls the producer itself
CreateEager(p) ==
    /\ stack = <<>>
    /\ Len(call.factories) < MaxFactories
    /\ call' = [call EXCEPT !.factories = Append(@, [f |-> p, calls |-> 1])]
    /\ UNCHANGED <<cellVars, stack, isUpdating, pListeners, pHandles>>

\* create(setupInitialState): returns the factory, a closure
Create(p) ==
    /\ stack = <<>>
    /\ Len(call.factories) < MaxFactories
    /\ call' = [call EXCEPT !.factories = Append(@, [f |-> p, calls |-> 0])]
    /\ UNCHANGED <<cellVars, stack, isUpdating, pListeners, pHandles>>

\* the factory k is invoked: state = setupInitialState(), listeners = []
Instantiate(k) ==
    /\ stack = <<>>
    /\ k \in 1..Len(call.factories)
    /\ Len(call.cells) < Cardinality(Cells)
    /\ LET c == Len(call.cells) + 1
           p == call.factories[k].f
       IN /\ state' = [state EXCEPT ![c] = Produce(p)]
          /\ listeners' = [listeners EXCEPT ![c] = <<>>]
          /\ call' = [call EXCEPT
                         !.factories[k].calls = @ + 1,
                         !.cells = Append(@, [factory |-> k,
                                              defined |-> p.v # Undefined])]
    /\ UNCHANGED <<handles, stack, isUpdating, pListeners, pHandles>>

\* cell.subscribe(f)() called from the top level
UseSubscribe(c, f) ==
    /\ stack = <<>>
    /\ Exists(c)
    /\ Len(handles) < MaxSubscriptions
    /\ Subscribe(c, f)

\* the preparer cell.apply(r) returns, not yet invoked; `from` and `arg`
\* say which function of liftAndApply made it with which argument (0: none)
Preparer(c, r, from, a) ==
    [c |-> c, r |-> r, runs |-> 0, from |-> from, arg |-> a]

\* variant: apply runs the update at once and returns a preparer
ApplyCallEager(c, r) ==
    /\ stack = <<>>
    /\ Exists(c)
    /\ Len(call.preps) < MaxPreparers
    /\ r.op = "inc" => state[c] # Undefined
    /\ ApplyCell(c, r)
    /\ call' = [call EXCEPT !.preps = Append(@, Preparer(c, r, 0, 0))]
    /\ UNCHANGED <<isUpdating, pListeners, pHandles>>

\* cell.apply(r): returns the preparer
ApplyCall(c, r) ==
    /\ stack = <<>>
    /\ Exists(c)
    /\ Len(call.preps) < MaxPreparers
    /\ call' = [call EXCEPT !.preps = Append(@, Preparer(c, r, 0, 0))]
    /\ UNCHANGED <<cellVars, stack, isUpdating, pListeners, pHandles>>

\* liftAndApply(fn, cell): returns a function of the arguments of fn
Lift(fn, c) ==
    /\ stack = <<>>
    /\ Exists(c)
    /\ Len(call.lifted) < MaxLifted
    /\ call' = [call EXCEPT !.lifted = Append(@, [fn |-> fn, c |-> c])]
    /\ UNCHANGED <<cellVars, stack, isUpdating, pListeners, pHandles>>

\* variant: the function liftAndApply returned invokes the preparer itself
LiftedCallEager(i, a) ==
    /\ stack = <<>>
    /\ i \in 1..Len(call.lifted)
    /\ Len(call.preps) < MaxPreparers
    /\ LET L == call.lifted[i] IN
       /\ FnApply(L.fn, a).op = "inc" => state[L.c] # Undefined
       /\ ApplyCell(L.c, FnApply(L.fn, a))
       /\ call' = [call EXCEPT !.preps =
                      Append(@, Preparer(L.c, FnApply(L.fn, a), i, a))]
    /\ UNCHANGED <<isUpdating, pListeners, pHandles>>

\* the function liftAndApply returned is called with argument a:
\* store.apply(fn(...args)), which returns the preparer
LiftedCall(i, a) ==
    /\ stack = <<>>
    /\ i \in 1..Len(call.lifted)
    /\ Len(call.preps) < MaxPreparers
    /\ LET L == call.lifted[i] IN
       call' = [call EXCEPT !.preps =
                   Append(@, Preparer(L.c, FnApply(L.fn, a), i, a))]
    /\ UNCHANGED <<cellVars, stack, isUpdating, pListeners, pHandles>>

\* a reducer that returns a value whenever it is given one
ReturnsValue(r) == r.op = "inc" \/ r.v # Undefined

\* the preparer j is invoked from the top level; user code uses the
\* arithmetic reducer on numbers only
Invoke(j) ==
    /\ stack = <<>>
    /\ j \in 1..Len(call.preps)
    /\ LET P == call.preps[j] IN
       /\ P.runs < MaxRuns
       /\ P.r.op = "inc" => state[P.c] # Undefined
       /\ ApplyCell(P.c, P.r)
       /\ call' = [call EXCEPT !.preps[j].runs = @ + 1,
                               !.cells[P.c].defined = @ /\ ReturnsValue(P.r)]
    /\ UNCHANGED <<isUpdating, pListeners, pHandles>>

\* cell.apply(r)() called from the top level
UseApply(c, r) ==
    /\ stack = <<>>
    /\ Exists(c)
    /\ r.op = "inc" => state[c] # Undefined
    /\ ApplyCell(c, r)
    /\ call' = [call EXCEPT !.cells[c].defined = @ /\ ReturnsValue(r)]
    /\ UNCHANGED <<isUpdating, pListeners, pHandles>>

\* user code that creates factories, makes cells, subscribes passive
\* listeners, unsubscribes them and applies, all from the top level
NextUse ==
    \/ \E p \in Producers : Create(p)
    \/ \E k \in 1..MaxFactories : Instantiate(k)
    \/ \E c \in Cells, f \in Fns : UseSubscribe(c, f)
    \/ stack = <<>> /\ \E h \in 1..Len(handles) : Unsubscribe(h)
    \/ \E c \in Cells, r \in UseReducers : UseApply(c, r)
    \/ Notify
    \/ Return
    \/ EndPass

SpecUse == InitUse /\ [][NextUse]_vars

\* one factory has made every cell
InitDefer ==
    /\ \E x \in Vals :
           /\ state = [c \in Cells |-> x]
           /\ call = [NoEnv EXCEPT
                         !.factories = <<[f |-> [v |-> x],
                                          calls |-> Cardinality(Cells)]>>,
                         !.cells = [c \in 1..Cardinality(Cells) |->
                                        [factory |-> 1, defined |-> TRUE]]]
    /\ listeners = [c \in Cells |-> <<>>]
    /\ handles = <<>>
    /\ stack = <<>>
    /\ isUpdating = FALSE
    /\ pListeners = <<>>
    /\ pHandles = <<>>

\* user code that subscribes a passive listener, asks for preparers
\* directly and through liftAndApply and invokes them, all from the top
\* level
NextDefer ==
    \/ /\ SourceListeners < MaxSourceListeners
       /\ \E c \in Cells, f \in Fns : UseSubscribe(c, f)
    \/ \E c \in Cells, r \in Reducers : ApplyCall(c, r)
    \/ \E fn \in ReducerFactories, c \in Cells : Lift(fn, c)
    \/ \E i \in 1..MaxLifted, a \in Vals : LiftedCall(i, a)
    \/ \E j \in 1..MaxPreparers : Invoke(j)
    \/ Notify
    \/ Return
    \/ EndPass

SpecDefer == InitDefer /\ [][NextDefer]_vars

(* -------------------------- a listener throws ------------------------ *)

\* a listener whose body throws
Boom == "boom"

\* the body of the running listener is that of the throwing listener
Throwing == stack # <<>> /\ Top.kind = "run" /\ Top.f = Boom

\* the frame of the caller's handler once the throw of a listener has
\* reached it; as history it keeps the pass the throw went through
ListenerCaught(F) ==
    [kind |-> "caught", what |-> "listener", pre |-> state,
     ls |-> listeners, pls |-> pListeners, pass |-> F]

\* variant: forEach catches what a listener throws and goes on
ListenerThrowSwallowed ==
    /\ Throwing
    /\ stack' = Pop(stack)
    /\ UNCHANGED <<cellVars, projVars>>

\* the listener throws: neither forEach nor the apply preparer has a
\* handler, the throw leaves both and reaches the top-level caller
ListenerThrow ==
    /\ Throwing
    /\ Len(stack) = 2
    /\ stack' = <<ListenerCaught(stack[1])>>
    /\ UNCHANGED <<cellVars, projVars>>

\* cells used from the top level by user code, one of whose listeners
\* throws; the other listeners only return
NextFail ==
    \/ stack = <<>> /\ \E c \in Cells, f \in Fns \cup {Boom} : Subscribe(c, f)
    \/ \E c \in Cells, r \in Reducers : DirectApply(c, r)
    \/ Notify
    \/ ~Throwing /\ Return
    \/ ListenerThrow
    \/ EndPass
    \/ Resume

SpecFail == InitProj /\ [][NextFail]_vars

(* --------------------------- the React hook -------------------------- *)

MaxApplies == 3        \* applies on the store the component reads

\* the listener closure the subscription effect of the hook creates
Hook == "hook"

\* the selectors given to useSelector: identity (useState) and () => 0
Selectors == {"identity", "constant"}

\* selector(state)
Select(sel, s) == IF sel = "identity" THEN s ELSE 0

\* the equals options: the default, Eq.eqStrict.equals, and the function
\* of the tests that only calls one step up equal:
\* (currentState, nextState) => currentState === 1 && nextState === 2
Equalities == {"strict", "custom"}

\* equals(currentState, nextState)
Equals(eq, a, b) == IF eq = "strict" THEN a = b ELSE a = 0 /\ b = 1

\* the component before its first render, with the refs of its hook still
\* to be created; as history it keeps what it rendered and how many
\* applies were made between its first render and its effects (gap) and
\* after its effects (later)
NewComponent(sel, eq) ==
    [kind |-> "component", phase |-> "new", selector |-> sel, equals |-> eq,
     stateRef |-> Undefined, currentSub |-> Undefined, before |-> Undefined,
     unsubscribed |-> FALSE, handle |-> 0, dirty |-> FALSE,
     rendered |-> <<>>, gap |-> 0, later |-> 0]

InitHook ==
    /\ state \in {[c \in Cells |-> v] : v \in Vals}
    /\ listeners = [c \in Cells |-> <<>>]
    /\ handles = <<>>
    /\ stack = <<>>
    /\ isUpdating = FALSE
    /\ pListeners = <<>>
    /\ pHandles = <<>>
    /\ call \in {NewComponent(sel, eq) : sel \in Selectors, eq \in Equalities}

\* currentSubStateRef.current once the render of component C on state s
\* has set it if it was undefined
CurrentSub(C, s) ==
    IF C.currentSub = Undefined THEN Select(C.selector, s) ELSE C.currentSub

\* hasNewStateSlice of the render of component C on state s
HasNewStateSlice(C, s) ==
    /\ C.stateRef # Undefined
    /\ C.stateRef # s
    /\ ~Equals(C.equals, CurrentSub(C, s), Select(C.selector, s))

\* what useSelector returns from the render of component C on state s
StateSliceToReturn(C, s) ==
    IF HasNewStateSlice(C, s) THEN Select(C.selector, s) ELSE CurrentSub(C, s)

\* the first render of the component: useSelector reads the store and
\* creates its refs
HookRender ==
    /\ stack = <<>>
    /\ call.phase = "new"
    /\ LET s == state[TheCell] IN
       call' = [call EXCEPT !.phase = "rendered",
                            !.stateRef = s,
                            !.before = s,
                            !.currentSub = CurrentSub(call, s),
                            !.rendered = Append(@, StateSliceToReturn(call, s))]
    /\ UNCHANGED <<cellVars, stack, isUpdating, pListeners, pHandles>>

\* variant: a listener that keeps the selection and forces a render
\* whatever equals says
ListenedAlways(C) ==
    [C EXCEPT !.stateRef = state[TheCell],
              !.currentSub = Select(C.selector, state[TheCell]),
              !.dirty = TRUE]

\* variant: a listener without the unsubscribed flag
StillSubscribed(C) == FALSE

\* the test `if (unsubscribed)` of the listener
HookUnsubscribed(C) == C.unsubscribed

\* the component after the body of the hook's listener ran: nothing once
\* unsubscribed, else read the store, select, and on a selection that
\* equals calls new keep it and force a render
Listened(C) ==
    LET nextState == state[TheCell]
        nextStateSlice == Select(C.selector, nextState)
    IN IF HookUnsubscribed(C) \/ Equals(C.equals, C.currentSub, nextStateSlice)
       THEN C
       ELSE [C EXCEPT !.stateRef = nextState, !.currentSub = nextStateSlice,
                      !.dirty = TRUE]

\* variant: the subscription effect never calls the listener itself
NeverReconciled(C) == FALSE

\* the test of the subscription effect after it subscribed:
\* store.read() !== stateBeforeSubscriptionRef.current
Reconciled(C) == state[TheCell] # C.before

\* the effects of the first commit: the refs are synced, the listener is
\* subscribed and activated at once, and called if the state has changed
HookEffects ==
    /\ stack = <<>>
    /\ call.phase = "rendered"
    /\ listeners' = [listeners EXCEPT ![TheCell] = Append(@, FnL(Hook))]
    /\ handles' = Append(handles, NewHandle(TheCell, FnL(Hook)))
    /\ LET C == [call EXCEPT !.phase = "mounted",
                             !.handle = Len(handles) + 1]
       IN call' = IF Reconciled(C) THEN Listened(C) ELSE C
    /\ UNCHANGED <<state, stack, isUpdating, pListeners, pHandles>>

\* React renders the component again after forceRender, and the first
\* effect syncs the refs
HookRerender ==
    /\ stack = <<>>
    /\ call.phase = "mounted"
    /\ call.dirty
    /\ LET s == state[TheCell] IN
       call' = [call EXCEPT !.dirty = FALSE,
                            !.stateRef = s,
                            !.currentSub = StateSliceToReturn(call, s),
                            !.rendered = Append(@, StateSliceToReturn(call, s))]
    /\ UNCHANGED <<cellVars, stack, isUpdating, pListeners, pHandles>>

\* the store is running the hook's listener
HookRunning == stack # <<>> /\ Top.kind = "run" /\ Top.f = Hook

\* the body of the hook's listener, invoked by a pass of the store
HookListen ==
    /\ HookRunning
    /\ call' = Listened(call)
    /\ stack' = Pop(stack)
    /\ UNCHANGED <<cellVars, isUpdating, pListeners, pHandles>>

\* variant: a cleanup that does not call unsubscribe
NoCleanup(ls, hs, h) == [ls |-> ls, hs |-> hs]

\* the registry after the cleanup of the subscription effect called the
\* unsubscribe it holds
Cleanup(ls, hs, h) == AfterUnsubscribe(ls, hs, h)

\* the component is unmounted, from the top level or by another listener
\* of the store: unsubscribed = true; unsubscribe()
HookUnmount ==
    /\ UserCode
    /\ ~HookRunning
    /\ call.phase = "mounted"
    /\ listeners' = Cleanup(listeners, handles, call.handle).ls
    /\ handles' = Cleanup(listeners, handles, call.handle).hs
    /\ call' = [call EXCEPT !.phase = "gone", !.unsubscribed = TRUE]
    /\ UNCHANGED <<state, stack, isUpdating, pListeners, pHandles>>

\* store.apply(reducer)() called from the top level, also from the body of
\* the component between its render and its effects
HookApply(r) ==
    /\ stack = <<>>
    /\ call.gap + call.later < MaxApplies
    /\ ApplyCell(TheCell, r)
    /\ call' = IF call.phase = "rendered" THEN [call EXCEPT !.gap = @ + 1]
               ELSE IF call.phase = "new" THEN call
               ELSE [call EXCEPT !.later = @ + 1]
    /\ UNCHANGED <<isUpdating, pListeners, pHandles>>

\* a component that uses the hook on a cell which has passive listeners of
\* its own
NextHook ==
    \/ HookRender
    \/ HookEffects
    \/ HookRerender
    \/ HookListen
    \/ HookUnmount
    \/ \E r \in Reducers : HookApply(r)
    \/ /\ stack = <<>>
       /\ SourceListeners < MaxSourceListeners + 1
       /\ \E f \in Fns : Subscribe(TheCell, f)
    \/ Notify
    \/ ~HookRunning /\ Return
    \/ EndPass

SpecHook == InitHook /\ [][NextHook]_vars

\* cells and a projection over them, every operation of both, called by
\* user code from the top level: it subscribes to the cells before it
\* applies, unsubscribes from them, subscribes to the projection and
\* unsubscribes from it, and applies on the cells and on the projection;
\* the listeners only return
NextFrame ==
    \/ /\ stack = <<>>
       /\ call = NoCall
       /\ SourceListeners < MaxSourceListeners
       /\ \E c \in Cells, f \in Fns : Subscribe(c, f)
    \/ stack = <<>> /\ \E h \in 1..Len(handles) : Unsubscribe(h)
    \/ stack = <<>> /\ \E f \in Fns : PSubscribe(f)
    \/ stack = <<>> /\ \E h \in 1..MaxPHandles : PUnsubscribe(h)
    \/ stack = <<>> /\ \E r \in Reducers : PApply(r)
    \/ \E c \in Cells : PWrite(c)
    \/ PReturn
    \/ PNotify
    \/ PEnd
    \/ \E c \in Cells, r \in Reducers : DirectApply(c, r)
    \/ RelayNotify
    \/ Notify
    \/ Return
    \/ EndPass

SpecFrame == InitProj /\ [][NextFrame]_vars

(* ---------------- the reducer of a projection apply throws ----------- *)

\* variant: isUpdating is set before the reducer is called
PGuardThenThrow(r) ==
    /\ stack = <<>>
    /\ IF r = Thrower
       THEN /\ isUpdating' = TRUE
            /\ stack' = <<Caught("preducer")>>
            /\ UNCHANGED <<cellVars, pListeners, pHandles, call>>
       ELSE PApply(r)

\* projection.apply(reducer)() from the top level: reducer(read()) throws
\* in the first statement of the preparer, or the preparer runs
PApplyCall(r) ==
    /\ stack = <<>>
    /\ IF r = Thrower
       THEN /\ stack' = <<Caught("preducer")>>
            /\ UNCHANGED <<cellVars, projVars>>
       ELSE PApply(r)

\* a projection over the cells used from the top level by user code that
\* may pass a throwing reducer; the listeners only return
NextPErr ==
    \/ stack = <<>> /\ \E f \in Fns : PSubscribe(f)
    \/ \E r \in Reducers \cup {Thrower} : PApplyCall(r)
    \/ \E c \in Cells : PWrite(c)
    \/ PReturn
    \/ PNotify
    \/ PEnd
    \/ \E c \in Cells, r \in Reducers : DirectApply(c, r)
    \/ RelayNotify
    \/ Return
    \/ EndPass
    \/ Resume

SpecPErr == InitProj /\ [][NextPErr]_vars

(* ------------------------ the devtools wrapper ----------------------- *)

MaxSends == 3          \* invocations of the wrapped apply preparer

\* the reducers user code gives to the wrapped apply: function values with
\* a name property, empty for a function that was never bound to a name
NamedReducers ==
    {[op |-> "inc", v |-> 0, name |-> "increment"],
     [op |-> "const", v |-> 0, name |-> "reset"],
     [op |-> "const", v |-> 0, name |-> ""]}

\* variant: the name of the reducer as it is
RawName(r) == r.name

\* reducer.name || 'anonymous'
ReducerName(r) == IF r.name = "" THEN "anonymous" ELSE r.name

\* withDevtools(options)(store)() on TheCell with sink or without: what the
\* wrapper holds (whether connect gave a sink), what the sink has received
\* (init, sent) and the invocations of the wrapped apply preparer whose
\* store.apply(reducer)() has not returned yet (pending, with the stack
\* position of the pass each started)
Wrapped(sink) ==
    [kind |-> "devtools", sink |-> sink,
     init |-> IF sink THEN <<state[TheCell]>> ELSE <<>>,
     sent |-> <<>>, pending |-> <<>>, applies |-> 0]

InitDev ==
    /\ state \in {[c \in Cells |-> v] : v \in Vals}
    /\ listeners = [c \in Cells |-> <<>>]
    /\ handles = <<>>
    /\ stack = <<>>
    /\ isUpdating = FALSE
    /\ pListeners = <<>>
    /\ pHandles = <<>>
    /\ call \in {Wrapped(sink) : sink \in BOOLEAN}

\* variant: the wrapper sends as soon as the store's apply has assigned
\* the state
SendEarly == call.pending # <<>>

\* store.apply(reducer)() has returned into the wrapped preparer that
\* called it: the pass it started is no longer on the stack
SendDue ==
    /\ call.pending # <<>>
    /\ call.pending[Len(call.pending)].at > Len(stack)

\* the wrapped apply preparer is invoked by user code: without a sink it is
\* the store's own; with one it calls store.apply(reducer)() first
DevApply(r) ==
    /\ UserCode
    /\ ~SendDue
    /\ Depth < MaxPasses
    /\ call.applies < MaxSends
    /\ ApplyCell(TheCell, r)
    /\ call' = [call EXCEPT
                   !.applies = @ + 1,
                   !.pending = IF call.sink
                               THEN Append(@, [at |-> Len(stack) + 1, r |-> r])
                               ELSE @]
    /\ UNCHANGED <<isUpdating, pListeners, pHandles>>

\* the rest of the wrapped preparer: devTools.send({type: reducerName},
\* store.read())
DevSend ==
    /\ SendDue
    /\ call' = [call EXCEPT
                   !.pending = SubSeq(@, 1, Len(@) - 1),
                   !.sent = Append(@, [type |-> ReducerName(call.pending[Len(call.pending)].r),
                                       state |-> state[TheCell]])]
    /\ UNCHANGED <<cellVars, stack, isUpdating, pListeners, pHandles>>

\* a cell wrapped by withDevtools: user code subscribes to the wrapped
\* store, which is subscribing to the cell, and invokes the wrapped apply
\* preparer from the top level and from inside listeners
NextDev ==
    \/ stack = <<>> /\ ~SendDue /\ \E f \in Fns : Subscribe(TheCell, f)
    \/ \E r \in NamedReducers : DevApply(r)
    \/ DevSend
    \/ Notify
    \/ ~SendDue /\ Return
    \/ EndPass

SpecDev == InitDev /\ [][NextDev]_vars

(* ------------------------ several projections ------------------------ *)

MaxQSubs == 2          \* subscription-preparer invocations user code makes
                       \* on the projections

Projs == {1, 2}        \* the projections P1 and P2; 0 stands for TheCell

\* stores of P1 and P2 when both are built on the cell
Shared == [p \in Projs |-> 0]

\* stores of P1 and P2 when P1 is built on the cell and P2 on P1
Chained == [p \in Projs |-> p - 1]

\* readProjection of projection p: P1 hands on the state of its source,
\* P2 its complement
View(p, s) == IF p = 1 THEN s ELSE 1 - s

\* the state applyProjection of projection p writes into its source for a
\* projected state v
Back(p, v) == IF p = 1 THEN v ELSE 1 - v

\* a listener value stored in the array of a source: the relay closure of
\* activation h of a subscription preparer of a projection
QRelay(h) == [k |-> "qrelay", f |-> "", h |-> h]

\* project(stores, readProjection, applyProjection)() for P1 and P2: each
\* projection's isUpdating (up) and listeners (ls), one record per
\* invocation of a subscription preparer of a projection (subs: the
\* projection, the listener, the unsubscribe its source returned and, as
\* history, whether user code called its unsubscribe) and, as history of
\* the last top-level apply, the store it was made on (on, -1 before the
\* first), the listeners of projections invoked since and the number of
\* writes into the cell applyProjection made
Net(src) ==
    [kind |-> "net", src |-> src,
     up |-> [p \in Projs |-> FALSE],
     ls |-> [p \in Projs |-> <<>>],
     subs |-> <<>>, on |-> 0 - 1, invoked |-> <<>>, wrote |-> 0]

InitNet(src) ==
    /\ state \in {[c \in Cells |-> v] : v \in Vals}
    /\ listeners = [c \in Cells |-> <<>>]
    /\ handles = <<>>
    /\ stack = <<>>
    /\ isUpdating = FALSE
    /\ pListeners = <<>>
    /\ pHandles = <<>>
    /\ call = Net(src)

\* read() of store n: the state of the cell, or readProjection of the
\* read() of the source
RECURSIVE ReadQ(_)
ReadQ(n) == IF n = 0 THEN state[TheCell] ELSE View(n, ReadQ(call.src[n]))

\* store.subscribe(l)() on store n, for the listeners and activations W:
\* a cell pushes l; a projection pushes l and subscribes a relay of the
\* new activation to its source, whose unsubscribe it keeps
RECURSIVE SubscribeTo(_, _, _)
SubscribeTo(n, l, W) ==
    IF n = 0
    THEN [W EXCEPT !.cl[TheCell] = Append(@, l),
                   !.hs = Append(@, NewHandle(TheCell, l))]
    ELSE LET h == Len(W.subs) + 1
             W1 == [W EXCEPT !.ls[n] = Append(@, l),
                             !.subs = Append(@, [p |-> n, l |-> l,
                                                 called |-> FALSE,
                                                 under |-> 0])]
             W2 == SubscribeTo(call.src[n], QRelay(h), W1)
         IN [W2 EXCEPT !.subs[h].under =
                 IF call.src[n] = 0 THEN Len(W2.hs) ELSE h + 1]

\* the unsubscribe of activation h of a projection: splice the first entry
\* of the listener, then call the unsubscribe the source returned
RECURSIVE UnsubscribeFrom(_, _)
UnsubscribeFrom(h, W) ==
    LET a == W.subs[h]
        W1 == [W EXCEPT !.ls[a.p] = Removed(@, a.l)]
    IN IF call.src[a.p] = 0
       THEN LET r == AfterUnsubscribe(W1.cl, W1.hs, a.under)
            IN [W1 EXCEPT !.cl = r.ls, !.hs = r.hs]
       ELSE UnsubscribeFrom(a.under, W1)

\* the listeners and activations as they are
World == [cl |-> listeners, hs |-> handles, ls |-> call.ls, subs |-> call.subs]

\* the activations user code made
UserSubs == {h \in 1..Len(call.subs) : call.subs[h].l.k = "fn"}

\* projection.subscribe(f)() on projection p, called by user code
QSubscribe(p, f) ==
    /\ stack = <<>>
    /\ Cardinality(UserSubs) < MaxQSubs
    /\ LET W == SubscribeTo(p, FnL(f), World)
       IN /\ listeners' = W.cl
          /\ handles' = W.hs
          /\ call' = [call EXCEPT !.ls = W.ls, !.subs = W.subs]
    /\ UNCHANGED <<state, stack, isUpdating, pListeners, pHandles>>

\* user code calls the unsubscribe of activation h, once
QUnsubscribe(h) ==
    /\ stack = <<>>
    /\ h \in UserSubs
    /\ ~call.subs[h].called
    /\ LET W == UnsubscribeFrom(h, World)
       IN /\ listeners' = W.cl
          /\ handles' = W.hs
          /\ call' = [call EXCEPT !.ls = W.ls,
                                  !.subs = [W.subs EXCEPT ![h].called = TRUE]]
    /\ UNCHANGED <<state, stack, isUpdating, pListeners, pHandles>>

\* the cell's apply(reducer)() called by user code at top level
QDirect(r) ==
    /\ stack = <<>>
    /\ ApplyCell(TheCell, r)
    /\ call' = [call EXCEPT !.on = 0, !.invoked = <<>>, !.wrote = 0]
    /\ UNCHANGED <<isUpdating, pListeners, pHandles>>

\* the apply preparer of projection p up to the call of applyProjection,
\* for the state v that reducer(read()) gave
ApplyFrame(p, v) == [kind |-> "qapply", p |-> p, newState |-> v, w |-> 0]

\* projection p's apply(reducer)() called by user code at top level
QApply(p, r) ==
    /\ stack = <<>>
    /\ stack' = <<ApplyFrame(p, Reduce(r, ReadQ(p)))>>
    /\ call' = [call EXCEPT !.up[p] = TRUE, !.on = p, !.invoked = <<>>,
                            !.wrote = 0]
    /\ UNCHANGED <<cellVars, isUpdating, pListeners, pHandles>>

\* applyProjection of the projection on top of the stack calls
\* source.apply(() => v)(): the cell assigns and starts its pass, a
\* projection enters its own apply preparer
QWrite ==
    /\ stack # <<>>
    /\ Top.kind = "qapply"
    /\ Top.w < MaxWrites
    /\ LET v == Back(Top.p, Top.newState)
           n == call.src[Top.p]
           counted == [stack EXCEPT ![Len(stack)].w = @ + 1]
       IN IF n = 0
          THEN /\ state' = [state EXCEPT ![TheCell] = v]
               /\ stack' = Call(counted, PassFrame(TheCell))
               /\ call' = [call EXCEPT !.wrote = @ + 1]
          ELSE /\ state' = state
               /\ stack' = Call(counted, ApplyFrame(n, v))
               /\ call' = [call EXCEPT !.up[n] = TRUE]
    /\ UNCHANGED <<listeners, handles, isUpdating, pListeners, pHandles>>

\* applyProjection returns: isUpdating = false, copy the listeners, start
\* forEach
QReturn ==
    /\ stack # <<>>
    /\ Top.kind = "qapply"
    /\ stack' = [stack EXCEPT ![Len(stack)] =
                    [kind |-> "qpass", p |-> Top.p, newState |-> Top.newState,
                     localListeners |-> call.ls[Top.p], i |-> 1]]
    /\ call' = [call EXCEPT !.up[Top.p] = FALSE]
    /\ UNCHANGED <<cellVars, isUpdating, pListeners, pHandles>>

\* variant: one isUpdating for all projections
GuardShared(p) == \E q \in Projs : call.up[q]

\* variant: relays without the isUpdating test
GuardNever(p) == FALSE

\* the test `if (isUpdating)` of a relay of projection p
Guard(p) == call.up[p]

\* the activation whose listener function a call of the relay of
\* activation h ends in, 0 if a relay on the way returns at its isUpdating
\* test
RECURSIVE Target(_)
Target(h) ==
    IF Guard(call.subs[h].p) THEN 0
    ELSE IF call.subs[h].l.k = "fn" THEN h
    ELSE Target(call.subs[h].l.h)

\* the forEach on top of the stack calls its entry l with argument v: a
\* function of user code runs with v; a relay ignores v and, unless it or
\* a relay it calls returns at the isUpdating test, ends in the function
\* of an activation, called with the read() of its projection
Invoke2(l, v) ==
    LET moved == [stack EXCEPT ![Len(stack)].i = @ + 1]
        t == Target(l.h)
        a == call.subs[t]
    IN IF l.k = "fn"
       THEN /\ stack' = Call(moved, [kind |-> "run", f |-> l.f, via |-> 0,
                                     arg |-> v])
            /\ call' = [call EXCEPT !.invoked =
                           Append(@, [p |-> Top.p, f |-> l.f, arg |-> v,
                                      h |-> 0])]
       ELSE IF t = 0
       THEN stack' = moved /\ UNCHANGED call
       ELSE /\ stack' = Call(moved, [kind |-> "run", f |-> a.l.f, via |-> t,
                                     arg |-> ReadQ(a.p)])
            /\ call' = [call EXCEPT !.invoked =
                           Append(@, [p |-> a.p, f |-> a.l.f,
                                      arg |-> ReadQ(a.p), h |-> t])]

\* one iteration of a projection's localListeners.forEach:
\* listener(newState)
QNotify ==
    /\ stack # <<>>
    /\ Top.kind = "qpass"
    /\ Top.i <= Len(Top.localListeners)
    /\ Invoke2(Top.localListeners[Top.i], Top.newState)
    /\ UNCHANGED <<cellVars, isUpdating, pListeners, pHandles>>

\* the projection's forEach is over: its apply preparer returns
QEnd ==
    /\ stack # <<>>
    /\ Top.kind = "qpass"
    /\ Top.i > Len(Top.localListeners)
    /\ stack' = Pop(stack)
    /\ UNCHANGED <<cellVars, projVars>>

\* one iteration of the cell's localListeners.forEach for a listener that
\* is a relay of P1 or P2
QRelayNotify ==
    /\ stack # <<>>
    /\ Top.kind = "pass"
    /\ Top.i <= Len(Top.localListeners)
    /\ Top.localListeners[Top.i].k = "qrelay"
    /\ Invoke2(Top.localListeners[Top.i], state[Top.cell])
    /\ UNCHANGED <<cellVars, isUpdating, pListeners, pHandles>>

\* the cell, P1 and P2: user code subscribes to the projections and
\* unsubscribes from them, each unsubscribe once, and applies on the cell
\* and on the projections, all from the top level; the listeners only
\* return
NextNet ==
    \/ \E p \in Projs, f \in Fns : QSubscribe(p, f)
    \/ \E h \in 1..(2 * MaxQSubs) : QUnsubscribe(h)
    \/ \E r \in Reducers : QDirect(r)
    \/ \E p \in Projs, r \in Reducers : QApply(p, r)
    \/ QWrite
    \/ QReturn
    \/ QNotify
    \/ QEnd
    \/ QRelayNotify
    \/ Return
    \/ EndPass

\* P1 and P2 both built on the cell
InitShared == InitNet(Shared)

SpecShared == InitShared /\ [][NextNet]_vars

\* P1 built on the cell, P2 built on P1
InitChain == InitNet(Chained)

SpecChain == InitChain /\ [][NextNet]_vars

TypeOK ==
    /\ state \in [Cells -> Vals]
    /\ isUpdating \in BOOLEAN
    /\ Len(pHandles) <= MaxPHandles

(* ------------------------- properties: the Cell ----------------------- *)

\* number of positions of seq that hold x
Count(x, seq) == Cardinality({k \in 1..Len(seq) : seq[k] = x})

\* the listener functions of a sequence of handles
FnsOf(hs) == [k \in 1..Len(hs) |-> handles[hs[k]].l.f]

\* the listener functions held by the listeners array of cell c
ListenerFns(c) == [k \in 1..Len(listeners[c]) |-> listeners[c][k].f]

InSeq(x, seq) == \E k \in 1..Len(seq) : seq[k] = x

PassFrames == {k \in 1..Len(stack) : stack[k].kind = "pass"}

\* the forEach of pass frame F has gone through its whole array
Finished(F) == F.i > Len(Iterated(F))

\* pass F has invoked function f once for each entry of f that was registered
\* when the pass started
Delivered(F, f) == Count(f, F.done) = Count(f, FnsOf(F.live))

\* pass F has invoked function f no more often than f had entries registered
\* when the pass started
NoExtra(F, f) == Count(f, F.done) <= Count(f, FnsOf(F.live))

\* C1: an entry activated by a listener while a pass is running gets no
\* invocation in that pass (the pass invokes its function only for the
\* entries registered at the start), and a pass that starts while an entry
\* activated by a listener is still registered invokes it.
SnapshotOnSubscribe ==
    \A k \in PassFrames :
        LET F == stack[k] IN
        /\ \A h \in (F.nh + 1)..Len(handles) :
               handles[h].cell = F.cell => NoExtra(F, handles[h].l.f)
        /\ Finished(F) =>
               \A h \in 1..F.nh :
                   handles[h].byListener /\ InSeq(h, F.live)
                       => Delivered(F, handles[h].l.f)

\* a finished pass that delivered to an entry a listener activated in an
\* earlier pass, and during which a listener activated another entry
SnapshotOnSubscribeWitness ==
    \E k \in PassFrames :
        LET F == stack[k] IN
        /\ Finished(F)
        /\ \E h \in 1..F.nh : handles[h].byListener /\ InSeq(h, F.live)
                               /\ InSeq(handles[h].l.f, F.done)
        /\ \E h \in (F.nh + 1)..Len(handles) : ~handles[h].removed

\* C2: when entries are unsubscribed while a pass is running, the pass still
\* invokes every entry that was registered when it started; a pass that
\* starts after an entry was unsubscribed does not invoke it.
SnapshotOnUnsubscribe ==
    \A k \in PassFrames :
        LET F == stack[k] IN
        /\ Finished(F) /\ (\E h \in 1..F.nh : InSeq(h, F.live) /\ handles[h].removed)
               => \A f \in Fns : Delivered(F, f)
        /\ \A h \in 1..F.nh :
               handles[h].cell = F.cell /\ ~InSeq(h, F.live)
                   => NoExtra(F, handles[h].l.f)

\* a finished pass during which a registered entry was unsubscribed, started
\* after another entry had been unsubscribed
SnapshotOnUnsubscribeWitness ==
    \E k \in PassFrames :
        LET F == stack[k] IN
        /\ Finished(F)
        /\ Len(F.done) >= 2
        /\ \E h \in 1..F.nh : InSeq(h, F.live) /\ handles[h].removed
        /\ \E h \in 1..F.nh : handles[h].cell = F.cell /\ ~InSeq(h, F.live)

\* C3: a pass started by a listener sits directly above that listener and
\* the pass that invoked it, which does not move on meanwhile; the nested
\* pass invokes every entry registered at its own start, and the outer pass
\* then still invokes every entry registered at its own start.
NestedApplyOrdering ==
    \A k \in PassFrames :
        LET F == stack[k] IN
        /\ (k = 1) = (F.by = 0)
        /\ F.by > 0 =>
               /\ k >= 3
               /\ stack[k - 1].kind = "run"
               /\ stack[k - 2].kind = "pass"
               /\ Len(stack[k - 2].done) = F.by
               /\ stack[k - 2].nested
               /\ Finished(F) => \A f \in Fns : Delivered(F, f)
        /\ F.nested /\ Finished(F) => \A f \in Fns : Delivered(F, f)

\* a nested pass has finished on a registry that differs from the one the
\* outer pass started with, and the outer pass still has listeners to invoke
NestedApplyOrderingWitness ==
    \E k \in PassFrames :
        /\ k >= 3
        /\ Finished(stack[k])
        /\ stack[k].done # <<>>
        /\ stack[k].live # stack[k - 2].live
        /\ ~Finished(stack[k - 2])

\* C4: every pass invokes the entries registered at its start in the order
\* in which their preparers were invoked.
NotificationOrder ==
    \A k \in PassFrames :
        LET F == stack[k] IN
        F.done = SubSeq(FnsOf(F.live), 1, Len(F.done))

\* C5: the listeners array holds exactly the entries whose unsubscribe has
\* not been called, each at its place in activation order: an unsubscribe
\* takes out the entry of its own activation and no other.
ExactEntryRemoval ==
    ListenerFns(TheCell) = FnsOf(LiveHandles(TheCell))

\* the handles of function f on cell c, and those whose unsubscribe was called
Activations(c, f) ==
    {h \in 1..Len(handles) : handles[h].cell = c /\ handles[h].l = FnL(f)}
Unsubscribed(c, f) == {h \in Activations(c, f) : handles[h].removed}

\* C6, on a Cell: N invocations of a preparer make N entries; once k
\* distinct unsubscribes of them have been called, however often, N - k
\* entries are left and a top-level apply invokes the listener N - k times.
IndependentEntries ==
    /\ \A f \in Fns :
           Count(FnL(f), listeners[TheCell]) =
               Cardinality(Activations(TheCell, f))
                   - Cardinality(Unsubscribed(TheCell, f))
    /\ stack # <<>> /\ Finished(stack[1]) =>
           \A f \in Fns :
               Count(f, stack[1].done) =
                   Cardinality({h \in Activations(stack[1].cell, f) :
                                   InSeq(h, stack[1].live)})

\* three entries of one function, two of them unsubscribed, and a top-level
\* apply that has invoked the function once
IndependentEntriesWitness ==
    /\ stack # <<>>
    /\ Finished(stack[1])
    /\ \E f \in Fns :
           /\ Cardinality(Activations(TheCell, f)) = 3
           /\ Cardinality(Unsubscribed(TheCell, f)) = 2
           /\ stack[1].nh = 3
           /\ Len(stack[1].live) = 1
           /\ stack[1].done = <<f>>

\* C7: the first call of an unsubscribe takes one entry of its listener out
\* of the array and leaves the other listeners alone, a later call of the
\* same unsubscribe changes nothing, and a pass that starts afterwards
\* invokes the listener only for the entries that are left.
UnsubscribeIdempotentFinal ==
    /\ [][\A h \in 1..Len(handles) :
              Unsubscribe(h) =>
                  LET c == handles[h].cell
                      l == handles[h].l
                  IN IF handles[h].removed
                     THEN listeners' = listeners
                     ELSE /\ Count(l, listeners'[c]) = Count(l, listeners[c]) - 1
                          /\ Len(listeners'[c]) = Len(listeners[c]) - 1]_vars
    /\ [](\A k \in PassFrames :
              \A h \in 1..stack[k].nh :
                  ~InSeq(h, stack[k].live) /\ handles[h].cell = stack[k].cell
                      => Count(handles[h].l.f, stack[k].done)
                            <= Cardinality({g \in 1..stack[k].nh :
                                   /\ InSeq(g, stack[k].live)
                                   /\ handles[g].l = handles[h].l}))

\* an entry was unsubscribed, another entry of the same function is still
\* registered, and a later pass has invoked the function once
UnsubscribeIdempotentFinalWitness ==
    \E k \in PassFrames :
        LET F == stack[k] IN
        /\ Finished(F)
        /\ \E h \in 1..F.nh, g \in 1..F.nh :
               /\ ~InSeq(h, F.live)
               /\ InSeq(g, F.live)
               /\ handles[g].l = handles[h].l
               /\ Count(handles[h].l.f, F.done) = 1
(* ---------------------- properties: the Projection -------------------- *)

\* the listener functions of the projection listeners invoked in the call
InvokedFns == [k \in 1..Len(call.invoked) |-> call.invoked[k].f]

\* the activations the invocations of the call came through (0: the
\* projection's own pass)
InvokedVia == [k \in 1..Len(call.invoked) |-> call.invoked[k].h]

\* the activations of function f among the handles hs of the projection
PActivations(hs, f) ==
    {k \in 1..Len(hs) : pHandles[hs[k]].l = FnL(f)}

\* the activations of function f on the projection, and those whose
\* unsubscribe was called
PSubscribed(f) == {h \in 1..Len(pHandles) : pHandles[h].l = FnL(f)}
PUnsubscribed(f) == {h \in PSubscribed(f) : pHandles[h].called}

\* C6, on a Projection: N invocations of a preparer make N entries; once k
\* distinct unsubscribes of them have been called, however often, the
\* projection holds N - k entries of the listener and an apply on the
\* projection invokes it N - k times.
IndependentEntriesOnProjection ==
    /\ \A f \in Fns :
           Count(FnL(f), pListeners) =
               Cardinality(PSubscribed(f)) - Cardinality(PUnsubscribed(f))
    /\ call.kind = "papply" /\ stack # <<>> /\ Top.kind = "ppass"
           /\ Top.i > Len(Top.localListeners) =>
           \A f \in Fns :
               Count(f, Top.done) = Cardinality(PActivations(call.live, f))

\* C8: a second call of the unsubscribe of a projection subscription changes
\* nothing, so a projection apply invokes a listener once for each of its
\* activations whose unsubscribe was never called.
ProjectionUnsubscribeIdempotent ==
    /\ [][\A h \in 1..Len(pHandles) :
              PUnsubscribe(h) /\ pHandles[h].called
                  => pListeners' = pListeners /\ listeners' = listeners]_vars
    /\ [](call.kind = "papply" /\ stack = <<>> =>
              \A f \in Fns :
                  Count(f, InvokedFns) = Cardinality(PActivations(call.live, f)))

\* C9, when no listener applies on the projection: while applyProjection
\* runs no projection listener is called; the one pass that follows invokes
\* every entry of the projection's own listeners once, and nothing reaches
\* a listener through a relay.
ProjectionSingleNotify ==
    call.kind = "papply" =>
        /\ (stack # <<>> /\ stack[1].kind = "papply") => call.invoked = <<>>
        /\ \A k \in 1..Len(call.invoked) : call.invoked[k].h = 0
        /\ \A f \in Fns : Count(f, InvokedFns) <= Count(FnL(f), call.reg)
        /\ stack = <<>> =>
               \A f \in Fns : Count(f, InvokedFns) = Count(FnL(f), call.reg)

\* a projection apply that wrote both sources is over and has invoked two
\* registered entries
ProjectionSingleNotifyWitness ==
    /\ stack = <<>>
    /\ call.kind = "papply"
    /\ Len(call.written) = 2
    /\ call.written[1] # call.written[2]
    /\ Len(call.reg) = 2
    /\ Len(call.invoked) = 2

\* the frames of the projection's apply preparer: applyProjection running
\* (papply), then its notification pass (ppass)
ApplyingFrames == {k \in 1..Len(stack) : stack[k].kind = "papply"}
PPassFrames == {k \in 1..Len(stack) : stack[k].kind = "ppass"}

\* C9: every invocation of the projection's apply preparer invokes each
\* entry of the projection's own listeners at most once, in the pass that
\* follows applyProjection, and a write that applyProjection makes into a
\* source never reaches a projection listener through a relay, whatever
\* the listeners do.
SingleNotifyPerApply ==
    /\ \A k \in PPassFrames : \A f \in Fns :
           Count(f, stack[k].done) <= Count(FnL(f), stack[k].localListeners)
    /\ \A k \in ApplyingFrames : \A j \in (k + 1)..Len(stack) :
           stack[j].kind = "run" => stack[j].via = 0

\* the projected state a relay has to deliver in the call: readProjection of
\* the sources once the applied source holds its new state
PostChange ==
    ReadProjection([call.pre EXCEPT ![call.c] = Reduce(call.r, @)])

\* C10: a direct apply on a source, with no projection apply in progress,
\* invokes once the listener of every activation of the projection that
\* was subscribed when the apply started, with readProjection of the
\* sources' states after the change.
ProjectionUpstreamPropagation ==
    call.kind = "direct" =>
        /\ ~isUpdating
        /\ \A k \in 1..Len(call.invoked) :
               LET e == call.invoked[k] IN
               /\ InSeq(e.h, call.live)
               /\ e.f = pHandles[e.h].l.f
               /\ e.arg = PostChange
        /\ \A h \in 1..Len(pHandles) : Count(h, InvokedVia) <= 1
        /\ stack = <<>> =>
               \A k \in 1..Len(call.live) : Count(call.live[k], InvokedVia) = 1

\* a direct apply that changed a source is over, two activations were
\* subscribed and both listeners were invoked; the sources differ
ProjectionUpstreamPropagationWitness ==
    /\ stack = <<>>
    /\ call.kind = "direct"
    /\ state # call.pre
    /\ state[1] # state[2]
    /\ Len(call.live) = 2
    /\ Len(call.invoked) = 2

(* ------------------- properties: failures and reentrancy -------------- *)

\* C11: when applyProjection throws, isUpdating is false again once the
\* throw has reached the caller of the projection's apply, and a top-level
\* apply on a source made afterwards invokes the listener of every
\* subscribed activation of the projection.
GuardCleanup ==
    /\ (stack # <<>> /\ Top.kind = "caught" /\ Top.what = "applyProjection")
           => ~isUpdating
    /\ (call.kind = "direct" /\ stack = <<>>) =>
           \A k \in 1..Len(call.live) : Count(call.live[k], InvokedVia) = 1

\* C12: from the call of applyProjection to its return no relay of the
\* projection invokes a projection listener, whatever the listeners of the
\* sources do meanwhile: everything invoked while the top-level apply is
\* inside applyProjection came from a pass of the projection itself.
FeedbackSuppressed ==
    (stack # <<>> /\ stack[1].kind = "papply") =>
        \A k \in 1..Len(call.invoked) : call.invoked[k].h = 0

\* the invocations of function f made by passes of the projection itself
\* during the call
OwnInvocations(f) ==
    {k \in 1..Len(call.invoked) : call.invoked[k].h = 0 /\ call.invoked[k].f = f}

\* C13: once the unsubscribe of an activation of the projection has been
\* called, no later call reaches its listener for it: a relay that invokes
\* a listener during a call belongs to an activation that was still
\* subscribed when the call started, and a pass of the projection invokes
\* a function no more often than it had subscribed activations.
ProjectionUnsubscribeStops ==
    call.kind \in {"papply", "direct"} =>
        /\ \A k \in 1..Len(call.invoked) :
               call.invoked[k].h > 0 => InSeq(call.invoked[k].h, call.live)
        /\ \A f \in Fns :
               Cardinality(OwnInvocations(f))
                   <= Cardinality(PActivations(call.live, f))

\* a top-level apply on a source is over: it invoked the listener of the
\* activation still subscribed and not the listener of the activation that
\* had been unsubscribed before
ProjectionUnsubscribeStopsWitness ==
    /\ stack = <<>>
    /\ call.kind = "direct"
    /\ Len(pHandles) = 2
    /\ Len(call.live) = 1
    /\ pHandles[1].l # pHandles[2].l
    /\ Len(call.invoked) = 1
    /\ call.invoked[1].h = call.live[1]

\* the state the cell of the top-level apply has to hold: reducer(s)
NewState == Reduce(call.r, call.pre[call.c])

\* C14: after the preparer cell.apply(r) was invoked on a cell in state s,
\* the cell reads r(s), and the other cells read what they read before.
ApplyCorrect ==
    call.kind = "direct" =>
        /\ state[call.c] = NewState
        /\ \A c \in Cells \ {call.c} : state[c] = call.pre[c]

\* an apply that changed the state has notified a listener and finished
\* its pass
ApplyCorrectWitness ==
    /\ call.kind = "direct"
    /\ stack # <<>>
    /\ stack[1].kind = "pass"
    /\ Finished(stack[1])
    /\ stack[1].done # <<>>
    /\ state[call.c] # call.pre[call.c]

\* C15: when the reducer throws, the throw reaches the caller with the
\* states and the listeners arrays as they were before the call and with
\* no notification pass started or left behind.
ReducerFailure ==
    (stack # <<>> /\ Top.kind = "caught" /\ Top.what = "reducer") =>
        /\ state = Top.pre
        /\ listeners = Top.ls
        /\ Len(stack) = 1

\* a reducer has thrown on a cell that has listeners, after an apply that
\* went through
ReducerFailureWitness ==
    /\ stack # <<>>
    /\ Top.kind = "caught"
    /\ Top.what = "reducer"
    /\ call.kind = "direct"
    /\ \E c \in Cells : Len(listeners[c]) >= 2

\* C16: a top-level apply on a cell whose listeners only return invokes a
\* function once for each of its registered entries, never a function that
\* has no registered entry, and always with the new state as argument.
BasicNotification ==
    (call.kind = "direct" /\ stack # <<>> /\ stack[1].kind = "pass") =>
        /\ \A f \in Fns : NoExtra(stack[1], f)
        /\ Finished(stack[1]) => \A f \in Fns : Delivered(stack[1], f)
        /\ Len(stack) >= 2 => stack[2].arg = NewState

\* a pass over two registered entries has finished on a cell that changed
\* and on which another entry had been unsubscribed
BasicNotificationWitness ==
    /\ call.kind = "direct"
    /\ stack # <<>>
    /\ stack[1].kind = "pass"
    /\ Finished(stack[1])
    /\ Len(stack[1].done) = 2
    /\ state[call.c] # call.pre[call.c]
    /\ \E h \in 1..Len(handles) :
           handles[h].cell = call.c /\ handles[h].removed

\* the caller's handler runs for a throw of cell.subscribe or of
\* projection.subscribe
SubscribeThrew ==
    /\ stack # <<>>
    /\ Top.kind = "caught"
    /\ Top.what \in {"subscribe", "psubscribe"}

\* C17, as the spec states it: subscribe called with a value that is not a
\* function does not fail at subscribe time, on a Cell or on a Projection.
InvalidListenerNotAtSubscribe == ~SubscribeThrew

\* C17, as the code has it: subscribe called with a value that is not a
\* function throws at once, before it returns a preparer, on a Cell and on
\* a Projection; the invocation of a preparer never throws.
InvalidListenerAtSubscribe ==
    /\ [][\A c \in Cells :
              SubscribeCall(c, NotAFunction) \/ PSubscribeCall(NotAFunction)
                  => /\ stack'[1].kind = "caught"
                     /\ call' = call]_vars
    /\ [][Activate => stack' = <<>>]_vars
    /\ [](call.kind = "prepared" => call.f \in Fns)

\* projection.subscribe has thrown for a value that is not a function while
\* user code holds a preparer and has invoked preparers before
InvalidListenerAtSubscribeWitness ==
    /\ stack # <<>>
    /\ Top.kind = "caught"
    /\ Top.what = "psubscribe"
    /\ call.kind = "prepared"
    /\ handles # <<>>

\* C18: store.subscribe(x) with x not a function throws, on a Cell and on
\* a Projection: it leaves the states and every listeners array as they
\* were, and no preparer and no entry ever holds a value that is not a
\* function.
InvalidListenerRejected ==
    /\ SubscribeThrew =>
           /\ state = Top.pre
           /\ listeners = Top.ls
           /\ pListeners = Top.pls
    /\ call.kind = "prepared" => call.f \in Fns
    /\ \A c \in Cells : \A k \in 1..Len(listeners[c]) :
           listeners[c][k].k = "fn" => listeners[c][k].f \in Fns
    /\ \A k \in 1..Len(pListeners) : pListeners[k].f \in Fns

\* cell.subscribe has thrown for a value that is not a function on stores
\* that hold listeners and whose state an apply has changed
InvalidListenerRejectedWitness ==
    /\ stack # <<>>
    /\ Top.kind = "caught"
    /\ Top.what = "subscribe"
    /\ call.kind = "direct"
    /\ state # call.pre
    /\ pListeners # <<>>
    /\ \E c \in Cells : \E k \in 1..Len(listeners[c]) : listeners[c][k].k = "fn"

(* ------------------ properties: reading the Projection ---------------- *)

ReadBefore == [a |-> call.pre[1], b |-> call.pre[2]]

\* C20: once applyProjection has written every source, the projection
\* reads r(p), p being what it read before the call, and every source
\* holds its component of r(p).
WriteRoundTrip ==
    (/\ call.kind = "papply"
     /\ \A c \in Cells : InSeq(c, call.written)
     /\ \A k \in 1..Len(stack) : stack[k].kind \in {"ppass", "run"}) =>
        /\ Read = PReduce(call.r, ReadBefore)
        /\ state[1] = PReduce(call.r, ReadBefore).a
        /\ state[2] = PReduce(call.r, ReadBefore).b

\* a projection apply that wrote both sources is over, both sources have
\* changed and hold different states, and a listener was notified
WriteRoundTripWitness ==
    /\ stack = <<>>
    /\ call.kind = "papply"
    /\ \A c \in Cells : InSeq(c, call.written)
    /\ \A c \in Cells : state[c] # call.pre[c]
    /\ state[1] # state[2]
    /\ call.invoked # <<>>

(* ------------------------ the value of a pass ------------------------- *)

\* the listener bodies that a forEach of a cell is running right now: the
\* places k + 1 of the stack above a pass frame k
Running == {k \in PassFrames : k < Len(stack) /\ stack[k + 1].kind = "run"}

\* C21: every listener a pass of a cell invokes is invoked with the state
\* the reducer of the apply that started the pass computed, also after an
\* earlier listener of the same pass has run a nested apply.
PassValue ==
    \A k \in Running : stack[k + 1].arg = stack[k].newState

\* the passes of cells that are running a listener, of the cell or a relay
\* of the projection, which no listener of the pass has left to apply again
Undisturbed == {k \in Running : ~stack[k].nested}

\* the calls of the projection's apply preparer that are running one of
\* the projection's own listeners
PRunning == {k \in PPassFrames : k < Len(stack) /\ stack[k + 1].kind = "run"}

\* what the sources hold once applyProjection has written the components
\* of the projected state p into the sources `written`
Written(p, written) ==
    [c \in Cells |-> IF InSeq(c, written) THEN Component(p, c)
                     ELSE call.pre[c]]

\* what a read of the cell of pass k returned when the listener the pass
\* is running was invoked: its argument, or for a listener of the
\* projection reached through a relay that source's component of it
ReadOnInvocation(k) ==
    IF stack[k + 1].via = 0 THEN stack[k + 1].arg
    ELSE Component(stack[k + 1].arg, stack[k].cell)

ProjectionPassValue ==
    \A k \in PRunning :
        /\ stack[k + 1].arg = PReduce(call.r, ReadBefore)
        /\ stack[k].newState = PReduce(call.r, ReadBefore)
        /\ ~isUpdating

\* the second listener of a projection's pass is running after
\* applyProjection wrote one source only, so that the projection now reads
\* neither what it read before the call nor what the listeners are given
ProjectionPassValueWitness ==
    \E k \in PRunning :
        /\ Len(stack[k].done) = 2
        /\ Len(call.written) = 1
        /\ Read # ReadBefore
        /\ Read # stack[k + 1].arg

(* ---------------------- factories and preparers ----------------------- *)

\* the cells factory k has made
MadeBy(k) == {c \in 1..Len(call.cells) : call.cells[c].factory = k}

\* a step in which a factory makes cell c
Makes(c) == Len(call.cells) = c - 1 /\ Len(call'.cells) = c

\* a step in which an apply preparer of cell c starts its pass, a preparer
\* of cell c.subscribe pushes its listener, or an unsubscribe of an entry
\* of cell c is called for the first time
Touches(c) ==
    \/ /\ Len(stack') = Len(stack) + 1
       /\ stack'[Len(stack')].kind = "pass"
       /\ stack'[Len(stack')].cell = c
    \/ /\ Len(handles') = Len(handles) + 1
       /\ handles'[Len(handles')].cell = c
    \/ \E h \in 1..Len(handles) :
           handles[h].cell = c /\ ~handles[h].removed /\ handles'[h].removed

\* C24: create calls no producer; every invocation of a factory calls its
\* producer once and the cell it makes reads that result; whatever is done
\* to one cell leaves the state and the listeners of the other cells alone.
TwoPhaseCreation ==
    /\ [](\A k \in 1..Len(call.factories) :
              call.factories[k].calls = Cardinality(MadeBy(k)))
    /\ [][\A c \in Cells :
              Makes(c) =>
                  /\ state'[c] = call.factories[call'.cells[c].factory].f.v
                  /\ listeners'[c] = <<>>
                  /\ \A d \in Cells \ {c} :
                         state'[d] = state[d] /\ listeners'[d] = listeners[d]]_vars
    /\ [][\A c \in Cells :
              Touches(c) =>
                  \A d \in Cells \ {c} :
                      state'[d] = state[d] /\ listeners'[d] = listeners[d]]_vars

\* one factory has made two cells, which now read different states and
\* have different listeners, one of them after an unsubscribe
TwoPhaseCreationWitness ==
    /\ \E k \in 1..Len(call.factories) :
           call.factories[k].calls = 2 /\ Cardinality(MadeBy(k)) = 2
    /\ state[1] # state[2]
    /\ listeners[1] # listeners[2]
    /\ \E h \in 1..Len(handles) : handles[h].removed
    /\ stack = <<>>

\* a step in which user code gets a preparer from apply
Prepares == Len(call'.preps) = Len(call.preps) + 1

\* a step in which the preparer j is invoked
Invokes(j) ==
    /\ Len(call'.preps) = Len(call.preps)
    /\ j <= Len(call.preps)
    /\ call'.preps[j].runs = call.preps[j].runs + 1

\* a step that is the body of the preparer cell.apply(r) of cell c, run on
\* the state the cell holds before the step: the state becomes r(state),
\* no other cell changes and one pass starts over the listeners of c
AppliesOnce(c, r) ==
    /\ state' = [state EXCEPT ![c] = Reduce(r, state[c])]
    /\ listeners' = listeners
    /\ Len(stack') = Len(stack) + 1
    /\ stack'[Len(stack')].kind = "pass"
    /\ stack'[Len(stack')].cell = c
    /\ stack'[Len(stack')].localListeners = listeners[c]
    /\ stack'[Len(stack')].i = 1

\* C25: getting a preparer from apply changes no state and starts no
\* pass; every invocation of a preparer applies its reducer once to the
\* state the cell holds at that moment and starts one pass.
DeferredApply ==
    /\ [][Prepares => state' = state /\ stack' = stack
                      /\ listeners' = listeners]_vars
    /\ [][\A j \in 1..MaxPreparers :
              Invokes(j) => AppliesOnce(call.preps[j].c, call.preps[j].r)]_vars

\* a preparer got from apply has been invoked twice, another preparer of
\* the same cell has been invoked too, and a listener is subscribed
DeferredApplyWitness ==
    /\ stack = <<>>
    /\ \E j, i \in 1..Len(call.preps) :
           /\ i # j
           /\ call.preps[j].from = 0
           /\ call.preps[j].runs = 2
           /\ call.preps[i].runs >= 1
           /\ call.preps[i].c = call.preps[j].c
           /\ call.preps[i].r # call.preps[j].r
           /\ listeners[call.preps[j].c] # <<>>

\* C26: calling the function liftAndApply(fn, cell) returned changes no
\* state and starts no pass, and invoking what it returned for arguments
\* a is a step of the preparer cell.apply(fn(a)): same state, same pass.
LiftAndApplyEquivalence ==
    /\ [][Prepares /\ call'.preps[Len(call'.preps)].from > 0 =>
              state' = state /\ stack' = stack /\ listeners' = listeners]_vars
    /\ [][\A j \in 1..MaxPreparers :
              Invokes(j) /\ call.preps[j].from > 0 =>
                  LET L == call.lifted[call.preps[j].from]
                  IN AppliesOnce(L.c, FnApply(L.fn, call.preps[j].arg))]_vars

\* a preparer made by a function of liftAndApply and a preparer got from
\* apply have both been invoked on a cell with a listener, which now holds
\* another state than at the start
LiftAndApplyEquivalenceWitness ==
    /\ stack = <<>>
    /\ \E j, i \in 1..Len(call.preps) :
           /\ call.preps[j].from > 0
           /\ call.preps[j].runs >= 1
           /\ call.preps[i].from = 0
           /\ call.preps[i].runs >= 1
           /\ call.preps[i].c = call.preps[j].c
           /\ listeners[call.preps[j].c] # <<>>
           /\ state[call.preps[j].c] # call.factories[1].f.v

(* -------------------------- a listener throws ------------------------- *)

\* the caller of the apply preparer is handling the throw of a listener
ListenerFailed ==
    stack # <<>> /\ Top.kind = "caught" /\ Top.what = "listener"

\* C27: when a listener throws during the pass of a cell, the throw
\* reaches the caller of the apply preparer at once, the pass invokes none
\* of the listeners that come after the thrower in its copy, and the cell
\* keeps the state the reducer computed.
ListenerFailure ==
    /\ [][Throwing => /\ Len(stack') = 1
                      /\ stack'[1].kind = "caught"
                      /\ stack'[1].what = "listener"
                      /\ state' = state]_vars
    /\ [](ListenerFailed =>
              /\ Len(stack) = 1
              /\ state[call.c] = NewState
              /\ Top.pass.newState = NewState
              /\ Top.pass.done[Len(Top.pass.done)] = Boom
              /\ Top.pass.i = Len(Top.pass.done) + 1
              /\ Count(Boom, Top.pass.done) = 1)
    /\ [][ListenerFailed => state' = state]_vars

\* the throw of the second of three listeners has reached the caller: the
\* third was not invoked and the cell holds a new state
ListenerFailureWitness ==
    /\ ListenerFailed
    /\ Len(Top.pass.localListeners) = 3
    /\ Len(Top.pass.done) = 2
    /\ Top.pass.localListeners[3].f # Boom
    /\ state[call.c] # call.pre[call.c]

(* ------------------------- a cell holds a value ----------------------- *)

\* C28 as stated: whatever the producer and the reducers, a cell that was
\* made never reads undefined.
AlwaysAValueWhatever ==
    \A c \in Cells : Exists(c) => state[c] # Undefined

\* C28: a cell reads a value from the moment it is made, as long as its
\* producer and every reducer applied to it returned one; a cell that has
\* not been made is the only other thing without a value.
AlwaysAValue ==
    \A c \in Cells :
        /\ Exists(c) /\ call.cells[c].defined => state[c] \in Vals
        /\ ~Exists(c) => state[c] = Undefined

\* a cell was made by a producer that returns a value and has been through
\* an apply that changed its state, while another cell is not made yet
AlwaysAValueWitness ==
    /\ stack = <<>>
    /\ \E c \in Cells :
           /\ Exists(c)
           /\ call.cells[c].defined
           /\ state[c] # call.factories[call.cells[c].factory].f.v
    /\ \E c \in Cells : ~Exists(c)

(* --------------------------- the React hook --------------------------- *)

\* C29: once the component is unmounted, the listener of its hook is in
\* the store no more, and nothing that happens later renders the component
\* or forces a render of it.
TeardownClean ==
    /\ [](call.phase = "gone" =>
              /\ IndexOf(listeners[TheCell], FnL(Hook)) = 0
              /\ handles[call.handle].removed
              /\ call.unsubscribed)
    /\ [][call.phase = "gone" =>
              /\ call'.rendered = call.rendered
              /\ call'.dirty = call.dirty
              /\ call'.currentSub = call.currentSub]_vars

\* the component rendered twice and was unmounted; the store, which still
\* has listeners, has been applied on since and now holds a state whose
\* selection is not what the component rendered last
TeardownCleanWitness ==
    /\ call.phase = "gone"
    /\ stack = <<>>
    /\ call.later >= 2
    /\ Len(call.rendered) >= 2
    /\ ~call.dirty
    /\ Select(call.selector, state[TheCell]) #
           call.rendered[Len(call.rendered)]
    /\ listeners[TheCell] # <<>>

\* the component is mounted and React has nothing left to render
Settled == call.phase = "mounted" /\ ~call.dirty /\ stack = <<>>

HookNotified == HookRunning /\ ~call.unsubscribed

LateDelivery ==
    [][HookRunning /\ call.unsubscribed => call' = call]_vars

\* the component was unmounted by another listener during a pass whose
\* copy holds the hook's listener, which is now invoked on a state whose
\* selection the component has not seen
LateDeliveryWitness ==
    /\ HookRunning
    /\ call.phase = "gone"
    /\ IndexOf(listeners[TheCell], FnL(Hook)) = 0
    /\ ~Equals(call.equals, call.currentSub,
               Select(call.selector, state[TheCell]))

(* ------------------------ the reentrancy guard ------------------------ *)

\* C33: isUpdating is true only while some call of the projection's apply
\* preparer is inside applyProjection, and it is false whenever no call of
\* the projection's apply preparer is in progress.
GuardInvariant ==
    /\ isUpdating => ApplyingFrames # {}
    /\ ApplyingFrames \cup PPassFrames = {} => ~isUpdating

\* a top-level projection apply during which a source listener applied on
\* the projection is over, sources were written, and user code is back at
\* the top level
GuardInvariantWitness ==
    /\ stack = <<>>
    /\ call.kind = "papply"
    /\ call.nested >= 1
    /\ call.written # <<>>
    /\ call.invoked # <<>>

\* the relays of listener function f that are subscribed on source c
ActiveRelays(c, f) ==
    {k \in 1..Len(listeners[c]) :
        /\ listeners[c][k].k = "relay"
        /\ pHandles[listeners[c][k].h].l = FnL(f)}

\* C34: for every listener function, the projection's own listeners hold
\* as many entries of it as every source holds relays of it, whatever
\* activations and unsubscribe calls were made.
DeliveryPathsAgree ==
    \A f \in Fns : \A c \in Cells :
        Count(FnL(f), pListeners) = Cardinality(ActiveRelays(c, f))

(* --------------- the reducer of a projection apply throws ------------- *)

\* the caller of the projection's apply preparer is handling the throw of
\* the reducer
PReducerFailed ==
    stack # <<>> /\ Top.kind = "caught" /\ Top.what = "preducer"

\* C35: when the reducer given to the projection's apply throws, the throw
\* reaches the caller at once: applyProjection is not called, no source is
\* written, isUpdating stays false and no listener is invoked.
ProjectionReducerFailure ==
    /\ [](PReducerFailed =>
              /\ Len(stack) = 1
              /\ state = Top.pre
              /\ listeners = Top.ls
              /\ pListeners = Top.pls
              /\ ~isUpdating)
    /\ [][PReducerFailed' /\ ~PReducerFailed =>
              /\ stack = <<>>
              /\ state' = state
              /\ isUpdating' = isUpdating
              /\ call' = call]_vars

\* the throw of the reducer has reached the caller of the apply of a
\* projection that has two listeners and went through an apply before
ProjectionReducerFailureWitness ==
    /\ PReducerFailed
    /\ Len(pListeners) = 2
    /\ call.kind = "papply"
    /\ call.written # <<>>

(* ------------- listeners of the sources during a projection apply ----- *)

\* the forEach of the pass on top of the stack stands before a listener
\* that user code subscribed on the cell directly
AtSourceListener ==
    /\ stack # <<>>
    /\ Top.kind = "pass"
    /\ Top.i <= Len(Top.localListeners)
    /\ Top.localListeners[Top.i].k = "fn"

\* the pass frames of the writes applyProjection makes
WritePasses ==
    {k \in PassFrames : k > 1 /\ stack[k - 1].kind = "papply"}

\* C36: the isUpdating test is made by the projection's relays only.  The
\* pass of every write applyProjection makes to a source walks the
\* listeners the source had at the write and invokes each listener
\* subscribed on the source directly, once, with the state of the source,
\* whatever isUpdating is; all this happens inside applyProjection, before
\* the forEach over the projection's own listeners of that apply starts.
SourceListenersNotSuppressed ==
    /\ [][AtSourceListener =>
              stack' = Append([stack EXCEPT ![Len(stack)].i = @ + 1,
                                            ![Len(stack)].done =
                                                Append(@, Top.localListeners[Top.i].f)],
                              [kind |-> "run", f |-> Top.localListeners[Top.i].f,
                               via |-> 0, arg |-> state[Top.cell]])]_vars
    /\ [][(stack # <<>> /\ Top.kind = "pass" /\ stack' = Pop(stack)) =>
              Top.done = [j \in 1..Len(Top.localListeners) |->
                             Top.localListeners[j].f]]_vars
    /\ [](\A k \in WritePasses :
              /\ stack[k].i = Len(stack[k].done) + 1
              /\ \A j \in 1..Len(stack[k].done) :
                     stack[k].done[j] = stack[k].localListeners[j].f)
    /\ [](\A k \in PPassFrames : k < Len(stack) => stack[k + 1].kind = "run")

\* a listener subscribed on a source directly runs during a write of
\* applyProjection, isUpdating is set, the pass stepped over a relay of the
\* projection before it and the projection has a listener of its own
SourceListenersNotSuppressedWitness ==
    /\ InSourceListener
    /\ Len(stack) - 1 \in WritePasses
    /\ isUpdating
    /\ pListeners # <<>>
    /\ \E j \in 1..Len(stack[Len(stack) - 1].done) :
           stack[Len(stack) - 1].localListeners[j].k = "relay"
    /\ call.invoked = <<>>

(* --------------------------- frame conditions ------------------------- *)

\* a step in which a subscription was activated or an unsubscribe ran, on a
\* cell or on the projection
Registration ==
    \/ listeners' # listeners
    \/ handles' # handles
    \/ pListeners' # pListeners
    \/ pHandles' # pHandles

\* the step is the first statement of the apply preparer of cell c: it
\* assigns the state of c alone and starts the forEach over the listeners
\* of c
CellApplied(c) ==
    /\ \A d \in Cells \ {c} : state'[d] = state[d]
    /\ Len(stack') = Len(stack) + 1
    /\ stack'[Len(stack')].kind = "pass"
    /\ stack'[Len(stack')].cell = c
    /\ stack'[Len(stack')].newState = state'[c]
    /\ stack'[Len(stack')].localListeners = listeners[c]

\* C39: activating a subscription and unsubscribing, on a cell or on the
\* projection, leave the state of every cell and the running calls as they
\* are; an apply whose listeners only return leaves the listeners of the
\* cells and of the projection unchanged from its first step to its last;
\* the state of a cell changes only in the first statement of that cell's
\* own apply preparer, which during an apply of the projection is called
\* by applyProjection alone.
FrameConditions ==
    /\ [][Registration => state' = state /\ stack' = stack]_vars
    /\ [][stack' # stack =>
              /\ listeners' = listeners
              /\ pListeners' = pListeners]_vars
    /\ [][state' # state =>
              /\ \E c \in Cells : CellApplied(c)
              /\ IF stack = <<>> THEN call'.kind = "direct"
                 ELSE Top.kind = "papply"]_vars
    /\ [](call.kind = "papply" =>
              \A c \in Cells : state[c] # call.pre[c] => InSeq(c, call.written))

\* applyProjection has just changed the state of a source of a projection
\* that has a listener, after user code unsubscribed a listener from a cell
\* and an activation from the projection
FrameConditionsWitness ==
    /\ Len(stack) = 2
    /\ stack[1].kind = "papply"
    /\ Top.kind = "pass"
    /\ Top.i = 1
    /\ state[Top.cell] # call.pre[Top.cell]
    /\ pListeners # <<>>
    /\ \E h \in 1..Len(handles) : handles[h].l.k = "fn" /\ handles[h].removed
    /\ \E h \in 1..Len(pHandles) : pHandles[h].called

(* ------------------------ the devtools wrapper ------------------------ *)

\* the step is an invocation of the wrapped apply preparer
WrappedApplyStarts == call'.applies = call.applies + 1

\* the step hands a message to the sink
Sends == Len(call'.sent) = Len(call.sent) + 1

\* C32: with a sink, each invocation of the wrapped apply preparer makes
\* the state change and starts the notification pass of one
\* store.apply(reducer)(), and when that pass has ended and before user
\* code goes on, one message goes to the sink: the reducer's name, or
\* 'anonymous', and the state the store holds then.  Nothing else is sent,
\* and the state and the listeners are touched by the store alone.
WrappedApply ==
    /\ [][WrappedApplyStarts =>
              \E r \in NamedReducers :
                  /\ state' = [state EXCEPT ![TheCell] = Reduce(r, @)]
                  /\ Len(stack') = Len(stack) + 1
                  /\ stack'[Len(stack')].kind = "pass"
                  /\ stack'[Len(stack')].localListeners = listeners[TheCell]
                  /\ stack'[Len(stack')].newState = state'[TheCell]
                  /\ listeners' = listeners
                  /\ call.sink =>
                         /\ call'.sent = call.sent
                         /\ call'.pending =
                                Append(call.pending,
                                       [at |-> Len(stack) + 1, r |-> r])]_vars
    /\ [][Sends =>
              LET p == call.pending[Len(call.pending)]
              IN /\ call.sink
                 /\ p.at = Len(stack) + 1
                 /\ call'.sent = Append(call.sent,
                        [type |-> IF p.r.name = "" THEN "anonymous"
                                  ELSE p.r.name,
                         state |-> state[TheCell]])
                 /\ call'.pending = SubSeq(call.pending, 1, Len(call.pending) - 1)
                 /\ state' = state /\ listeners' = listeners /\ stack' = stack]_vars
    /\ [][call'.sent # call.sent => Sends]_vars
    /\ [][SendDue => Sends]_vars
    /\ [](call.sink => /\ Len(call.sent) + Len(call.pending) = call.applies
                       /\ \A k \in 1..Len(call.pending) :
                              IF call.pending[k].at <= Len(stack)
                              THEN stack[call.pending[k].at].kind = "pass"
                              ELSE k = Len(call.pending))
    /\ [](~call.sink => call.sent = <<>> /\ call.pending = <<>>)

\* the sink has received the message of an apply with a reducer without a
\* name that a listener invoked during the pass of another apply, whose
\* message it has received after it; the store has two listeners
WrappedApplyWitness ==
    /\ call.sink
    /\ stack = <<>>
    /\ Len(call.sent) = 3
    /\ call.sent[1].type = "anonymous"
    /\ call.sent[2].type = "increment"
    /\ call.sent[1].state # call.sent[3].state
    /\ Len(listeners[TheCell]) = 2
    /\ call.pending = <<>>

(* ------------------------ several projections ------------------------- *)

\* the activations user code made on projection p whose unsubscribe it has
\* not called
LiveOn(p) == {h \in UserSubs : call.subs[h].p = p /\ ~call.subs[h].called}

\* the invocations, since the last top-level apply started, that a relay
\* made for activation h
RelayedTo(h) == {k \in 1..Len(call.invoked) : call.invoked[k].h = h}

\* the invocations of function f as a listener of projection p since the
\* last top-level apply started
DeliveredTo(p, f) ==
    {k \in 1..Len(call.invoked) :
         call.invoked[k].p = p /\ call.invoked[k].f = f}

\* the top-level apply that was running ends with this step
CallEnds == stack # <<>> /\ stack' = <<>>

\* C37: isUpdating belongs to one projection.  When P1 and P2 are built on
\* the same cell and user code applies on one of them, every write of its
\* applyProjection into the cell invokes each listener subscribed to the
\* other projection once, through its relay, with what the other
\* projection's read() gives at that moment; the listeners of the
\* projection applied on are invoked once in all, by its own pass.
GuardPerInstance ==
    /\ [](call.on \in Projs /\ stack # <<>> /\ Top.kind \in {"qapply", "qpass"} =>
              \A h \in LiveOn(3 - call.on) :
                  Cardinality(RelayedTo(h)) = call.wrote)
    /\ [][CallEnds /\ call.on \in Projs =>
              /\ \A h \in LiveOn(3 - call.on) :
                     Cardinality(RelayedTo(h)') = call.wrote
              /\ \A f \in Fns :
                     Cardinality(DeliveredTo(call.on, f)') =
                         Count(FnL(f), call.ls[call.on])
              /\ \A k \in 1..Len(call'.invoked) :
                     call'.invoked[k].p = call.on => call'.invoked[k].h = 0]_vars
    /\ [][Len(call'.invoked) = Len(call.invoked) + 1 =>
              LET rec == call'.invoked[Len(call'.invoked)]
              IN rec.h > 0 =>
                     /\ Top.kind = "pass"
                     /\ rec.arg = View(rec.p, state[TheCell])
                     /\ rec.p # call.on]_vars

\* an apply on P1 that wrote twice into the shared cell has ended; P1 and
\* P2 have a listener each, P2's was invoked twice and P1's once
GuardPerInstanceWitness ==
    /\ stack = <<>>
    /\ call.on = 1
    /\ call.wrote = 2
    /\ LiveOn(1) # {}
    /\ \E h \in LiveOn(2) : Cardinality(RelayedTo(h)) = 2
    /\ Len(call.invoked) = 3

====
